---- MODULE Spec2Model ----
(***************************************************************************)
(* HardClaw Proof-of-Verification node: chain state, block validation,     *)
(* verification engine with its cache, block producer, honey-pot defence   *)
(* and the Schelling-point commit-reveal voting engine.                    *)
(*                                                                         *)
(* Digests are modelled by their pre-image (a tagged tuple), so that the   *)
(* hash functions are injective and a digest comparison is a comparison of *)
(* what was hashed.  Signatures are modelled by the pair (signer, message).*)
(* Wall-clock time is the variable now, in ticks of 30,000 ms.              *)
(***************************************************************************)
EXTENDS Integers, Sequences, FiniteSets, Bags, TLC

\* ------------------------------------------------------------------------
\* Bounds of the model
\* ------------------------------------------------------------------------
MaxChain == 3
MaxTime == 2
MaxAttestations == 3

\* ------------------------------------------------------------------------
\* Crypto primitives
\* ------------------------------------------------------------------------
\* Hash::ZERO
ZERO == <<"zero">>

\* Option<T>: None is the empty sequence, Some(x) the sequence holding x
None == <<>>

Some(x) == <<x>>

PublicKeys == {"k1", "k2", "k3"}

\* Keypair::sign / crypto::verify: a signature verifies iff it was made by
\* the claimed key over exactly the signed bytes.
sign(key, msg) == <<"sig", key, msg>>

\* Signature::from_bytes([0u8; 64]), the placeholder of an unsigned object
NoSignature == <<"sig", "nobody", <<>>>>

verify(key, msg, signature) == signature = sign(key, msg)

\* merkle_root over solution ids: empty -> ZERO, singleton -> the id itself,
\* otherwise pairs are hashed level by level, an odd last node is paired
\* with itself.
RECURSIVE merkle_level(_)
merkle_level(hashes) ==
    IF Len(hashes) = 0 THEN <<>>
    ELSE IF Len(hashes) = 1 THEN << <<"node", hashes[1], hashes[1]>> >>
    ELSE << <<"node", hashes[1], hashes[2]>> >> \o merkle_level(SubSeq(hashes, 3, Len(hashes)))

RECURSIVE merkle_root(_)
merkle_root(hashes) ==
    IF Len(hashes) = 0 THEN ZERO
    ELSE IF Len(hashes) = 1 THEN hashes[1]
    ELSE merkle_root(merkle_level(hashes))

\* ------------------------------------------------------------------------
\* Blocks
\* ------------------------------------------------------------------------
\* BlockHeader::compute_hash: digest over all eight header fields
compute_hash(header) ==
    <<"blk", header.height, header.parent_hash, header.solutions_root,
      header.state_root, header.timestamp, header.proposer,
      header.verification_count, header.version>>

\* Block::compute_solutions_root
compute_solutions_root(verifications) ==
    merkle_root([i \in 1..Len(verifications) |-> verifications[i].solution_id])

\* Block::new, with the creation time passed in
Block_new(height_, parent_hash, proposer, verifications, state_root, timestamp) ==
    LET header == [height |-> height_,
                   parent_hash |-> parent_hash,
                   solutions_root |-> compute_solutions_root(verifications),
                   state_root |-> state_root,
                   timestamp |-> timestamp,
                   proposer |-> proposer,
                   verification_count |-> Len(verifications),
                   version |-> 1]
    IN [header |-> header,
        hash |-> compute_hash(header),
        verifications |-> verifications,
        attestations |-> <<>>,
        proposer_signature |-> NoSignature]

\* Block::genesis
genesis(proposer, timestamp) == Block_new(0, ZERO, proposer, <<>>, ZERO, timestamp)

\* VerifierAttestation::signing_bytes
attestation_signing_bytes(a) == <<a.verifier, a.block_hash, a.verified_solutions>>

\* VerifierAttestation::verify_signature
attestation_verify_signature(a) ==
    verify(a.verifier, attestation_signing_bytes(a), a.signature)

\* ------------------------------------------------------------------------
\* State
\* ------------------------------------------------------------------------
VARIABLES
    now,            \* wall clock (now_millis), in model ticks
    blocks,         \* ChainState.blocks: hash -> block
    height_index,   \* ChainState.height_index: height -> hash
    tip,            \* ChainState.tip: Option<Hash>
    height,         \* ChainState.height
    cs_ret,         \* the last ChainState call: operation, argument, result
    vb_ret,         \* the last validate_block call: arguments and result
    verification_cache,     \* ProofOfVerification.verification_cache
    pending_verifications,  \* BlockProducer.pending_verifications
    current_height,         \* BlockProducer.current_height
    current_parent,         \* BlockProducer.current_parent
    generated_ids,          \* HoneyPotGenerator.generated_ids
    known_honey_pots,       \* HoneyPotDetector.known_honey_pots
    injected,               \* honey-pot solutions handed out by generate
    verify_calls,           \* number of verify_solution calls made so far
    pv_ret,                 \* the last verifier call: arguments and result
    active_rounds,          \* SchellingConsensus.active_rounds
    completed_rounds,       \* SchellingConsensus.completed_rounds
    sc_ret,                 \* the last SchellingConsensus call: arguments and result
    rounds_started,         \* number of start_round calls made so far
    stakes,                 \* StakeManager.stakes: address -> StakeInfo
    total_staked,           \* StakeManager.total_staked
    stake_calls,            \* number of StakeManager calls made so far
    unstake_begun,          \* addresses whose present entry had a successful begin_unstake
    st_ret,                 \* the last StakeManager call: arguments and result
    offenders,              \* HoneyPotDetector.offenders
    hd_ret,                 \* the last HoneyPotDetector call and its arguments
    jobs,                   \* Mempool.jobs: id -> JobPacket
    job_queue,              \* Mempool.job_queue: the PrioritizedJob entries of the heap
    solutions,              \* Mempool.solutions: id -> SolutionCandidate
    solutions_by_job,       \* Mempool.solutions_by_job: job id -> solution ids
    mp_ret,                 \* the last Mempool call: argument and result
    mp_calls,               \* number of Mempool calls made so far
    popped,                 \* ids of the solutions pop_solutions has returned so far
    accounts,               \* ChainState.accounts: address -> AccountState
    acct_ret,               \* the last account call: arguments and result
    acct_calls,             \* number of account calls made so far
    total_burned,           \* BurnManager.total_burned
    burns_by_reason,        \* BurnManager.burns_by_reason
    burn_history,           \* BurnManager.burn_history
    tk_ret,                 \* the last TokenEconomics call: arguments and result
    tk_calls,               \* number of TokenEconomics calls made so far
    rt_ret,                 \* the last VerificationRuntime::execute call and its result
    sv_ret,                 \* the last SafetyConsensus::from_votes call and its result
    block_config,           \* BlockProducer.config
    produce_calls,          \* number of direct produce_block calls made so far
    hp_threads,             \* the threads sharing one detector and one generator: where each is in its call
    hp_log,                 \* the honey-pot calls in the order in which they took effect
    sessions,               \* SafetyReviewManager.sessions: code hash -> SafetyReviewSession
    reputations,            \* SafetyReviewManager.reputations: reviewer -> ReviewerReputation
    rv_ret,                 \* the last SafetyReviewManager call: arguments and result
    rv_calls                \* number of SafetyReviewManager calls made so far

chainVars == <<blocks, height_index, tip, height, cs_ret>>

producerVars == <<verification_cache, pending_verifications, current_height,
                  current_parent, verify_calls>>

honeyVars == <<generated_ids, known_honey_pots, injected>>

verifierVars == <<producerVars, honeyVars, pv_ret>>

schellingVars == <<active_rounds, completed_rounds, sc_ret, rounds_started>>

stakeVars == <<stakes, total_staked, stake_calls, unstake_begun, st_ret>>

detectorVars == <<offenders, hd_ret>>

mempoolVars == <<jobs, job_queue, solutions, solutions_by_job, mp_ret, mp_calls, popped>>

accountVars == <<accounts, acct_ret, acct_calls>>

tokenVars == <<total_burned, burns_by_reason, burn_history, tk_ret, tk_calls>>

configVars == <<block_config, produce_calls>>

threadVars == <<hp_threads, hp_log>>

reviewVars == <<sessions, reputations, rv_ret, rv_calls>>

lateVars == <<accountVars, tokenVars, rt_ret, sv_ret, configVars, threadVars, reviewVars>>

extVars == <<stakeVars, detectorVars, mempoolVars, lateVars>>

nonStakeVars == <<detectorVars, mempoolVars, lateVars>>

nonDetectorVars == <<stakeVars, mempoolVars, lateVars>>

nonMempoolVars == <<stakeVars, detectorVars, lateVars>>

nonAccountVars == <<stakeVars, detectorVars, mempoolVars, tokenVars, rt_ret, sv_ret, configVars, threadVars,
    reviewVars>>

nonTokenVars == <<stakeVars, detectorVars, mempoolVars, accountVars, rt_ret, sv_ret, configVars, threadVars,
    reviewVars>>

nonRuntimeVars == <<stakeVars, detectorVars, mempoolVars, accountVars, tokenVars, sv_ret, configVars, threadVars,
    reviewVars>>

nonConfigVars == <<stakeVars, detectorVars, mempoolVars, accountVars, tokenVars, rt_ret, sv_ret, threadVars,
    reviewVars>>

nonSafetyVars == <<stakeVars, detectorVars, mempoolVars, accountVars, tokenVars, rt_ret, configVars, threadVars,
    reviewVars>>

nonThreadVars == <<stakeVars, mempoolVars, accountVars, tokenVars, rt_ret, sv_ret, configVars,
                   reviewVars>>

nonReviewVars == <<stakeVars, detectorVars, mempoolVars, accountVars, tokenVars, rt_ret, sv_ret,
                   configVars, threadVars>>

coreVars == <<chainVars, vb_ret, verifierVars, schellingVars>>

vars == <<now, chainVars, vb_ret, verifierVars, schellingVars, extVars>>

\* ------------------------------------------------------------------------
\* ChainState
\* ------------------------------------------------------------------------
\* ChainState::new
ChainInit ==
    /\ blocks = <<>>
    /\ height_index = <<>>
    /\ tip = None
    /\ height = 0
    /\ cs_ret = [op |-> "new", result |-> "Ok"]

\* insertion into a HashMap: an existing key is overwritten
MapInsert(map, key, value) ==
    [k \in DOMAIN map \cup {key} |-> IF k = key THEN value ELSE map[k]]

\* The result apply_block computes for a block, from the checks in front of
\* the store.
apply_block_result(block) ==
    IF tip # None
    THEN IF block.header.parent_hash # tip[1] THEN "InvalidParent"
         ELSE IF block.header.height # height + 1 THEN "InvalidHeight"
         ELSE "Ok"
    ELSE IF block.header.height # 0 THEN "InvalidHeight"
         ELSE "Ok"

\* ChainState::apply_block
apply_block(block) ==
    LET result == apply_block_result(block) IN
    /\ cs_ret' = [op |-> "apply_block", block |-> block, result |-> result]
    /\ IF result = "Ok"
       THEN /\ blocks' = MapInsert(blocks, block.hash, block)
            /\ height_index' = MapInsert(height_index, height + 1, block.hash)
            /\ tip' = Some(block.hash)
            /\ height' = height + 1
       ELSE UNCHANGED <<blocks, height_index, tip, height>>

\* ChainState::get_block_at_height
get_block_at_height(h) ==
    IF h \in DOMAIN height_index /\ height_index[h] \in DOMAIN blocks
    THEN Some(blocks[height_index[h]])
    ELSE None

\* ChainState::tip(): the block the tip hash refers to
tip_block == IF tip # None /\ tip[1] \in DOMAIN blocks THEN Some(blocks[tip[1]]) ELSE None

\* Hashes a peer can refer to: those of stored blocks, and Hash::ZERO
KnownHashes == DOMAIN blocks \cup {ZERO}

\* Blocks that can arrive in a NewBlock message: any well-formed Block value.
\* The hash field travels with the block and need not be the header's digest.
ReceivedBlocks ==
    LET honest == { Block_new(h, p, "k1", <<>>, ZERO, ts) :
                       h \in 0..(MaxChain + 1), p \in KnownHashes, ts \in 0..1 }
    IN honest \cup { [b EXCEPT !.hash = f] : b \in honest, f \in DOMAIN blocks }

\* HardClawNode::handle_network_event, NetworkEvent::BlockReceived
BlockReceived ==
    /\ height < MaxChain
    /\ \E block \in ReceivedBlocks : apply_block(block)
    /\ UNCHANGED <<extVars, now, vb_ret, verifierVars, schellingVars>>

ChainNext == BlockReceived

\* ------------------------------------------------------------------------
\* ProofOfVerification::validate_block
\* ------------------------------------------------------------------------
\* Mutant of has_consensus: the threshold is rounded down instead of up
has_consensus_floor(block, total_verifiers) ==
    IF total_verifiers = 0 THEN FALSE
    ELSE Len(block.attestations) >= (66 * total_verifiers) \div 100

\* Block::has_consensus: threshold = ceil(total_verifiers as f64 * 0.66).
\* For every total_verifiers below 200,000 the f64 product rounds up to the
\* same integer as the exact ceiling of 66 * total_verifiers / 100.
has_consensus(block, total_verifiers) ==
    IF total_verifiers = 0 THEN FALSE
    ELSE LET threshold == (66 * total_verifiers + 99) \div 100
         IN Len(block.attestations) >= threshold

\* Block::verify_integrity
verify_integrity(block) ==
    IF compute_hash(block.header) # block.hash THEN "HashMismatch"
    ELSE IF compute_solutions_root(block.verifications) # block.header.solutions_root
         THEN "SolutionsRootMismatch"
    ELSE IF \E i \in 1..Len(block.attestations) :
                ~attestation_verify_signature(block.attestations[i])
         THEN "InvalidAttestation"
    ELSE "Ok"

\* Mutant of validate_block: integrity and threshold are checked before the
\* link to the parent
validate_block_integrity_first(block, parent, active_verifiers) ==
    IF verify_integrity(block) # "Ok" THEN "VerificationFailed"
    ELSE IF ~has_consensus(block, active_verifiers) THEN "InsufficientConsensus"
    ELSE IF parent # None /\ block.header.parent_hash # parent[1].hash THEN "InvalidParent"
    ELSE IF parent # None /\ block.header.height # parent[1].header.height + 1
         THEN "HeightMismatch"
    ELSE IF parent = None /\ block.header.height # 0 THEN "InvalidParent"
    ELSE "Ok"

\* The fields of ConsensusError::HeightMismatch as validate_block fills them
HeightMismatch(block, parent_block) ==
    [expected |-> parent_block.header.height + 1, got |-> block.header.height]

\* ProofOfVerification::validate_block: the checks in the order of the code
validate_block(block, parent, active_verifiers) ==
    IF parent # None /\ block.header.parent_hash # parent[1].hash THEN "InvalidParent"
    ELSE IF parent # None /\ block.header.height # parent[1].header.height + 1
         THEN "HeightMismatch"
    ELSE IF parent = None /\ block.header.height # 0 THEN "InvalidParent"
    ELSE IF verify_integrity(block) # "Ok" THEN "VerificationFailed"
    ELSE IF ~has_consensus(block, active_verifiers) THEN "InsufficientConsensus"
    ELSE IF \E i \in 1..Len(block.attestations) :
                ~attestation_verify_signature(block.attestations[i])
         THEN "VerificationFailed"
    ELSE "Ok"

\* VerifierAttestation::new followed by the signature of the verifier
SignedAttestation(verifier, block_hash, verified_solutions) ==
    LET a == [verifier |-> verifier, block_hash |-> block_hash,
              verified_solutions |-> verified_solutions, signature |-> NoSignature]
    IN [a EXCEPT !.signature = sign(verifier, attestation_signing_bytes(a))]

\* The attestations a block handed to validate_block may carry: signed by any
\* verifier key for this block, signed for another block, or unsigned.
AttestationsFor(block) ==
    { SignedAttestation(v, block.hash, <<>>) : v \in PublicKeys }
    \cup { SignedAttestation("k1", ZERO, <<>>),
           [SignedAttestation("k2", block.hash, <<>>) EXCEPT !.signature = NoSignature] }

\* Sequences over S of length at most n
RECURSIVE SeqsUpTo(_, _)
SeqsUpTo(S, n) ==
    IF n = 0 THEN {<<>>}
    ELSE LET shorter == SeqsUpTo(S, n - 1)
         IN shorter \cup { Append(q, x) : q \in {r \in shorter : Len(r) = n - 1}, x \in S }

\* The parent block offered to validate_block
ParentBlock == genesis("k1", 0)

\* Blocks handed to validate_block: the header links to the parent or not,
\* the hash field is the header's digest or not, attestations were added
\* with Block::add_attestation.
ValidatedBlocks ==
    LET bare == { Block_new(h, p, "k1", <<>>, ZERO, 1) :
                     h \in 0..2, p \in {ZERO, ParentBlock.hash} }
        hashed == bare \cup { [b EXCEPT !.hash = ZERO] : b \in bare }
    IN UNION { { [b EXCEPT !.attestations = atts] :
                    atts \in SeqsUpTo(AttestationsFor(b), MaxAttestations) } :
               b \in hashed }

\* A call of validate_block; active is the set of verifiers whose number the
\* caller passes as active_verifiers (StakeManager::active_verifier_count).
\* validate_block reads no state of the engine, so one call per behaviour
\* covers every call.
ValidateBlock ==
    /\ vb_ret.op = "new"
    /\ \E block \in ValidatedBlocks, parent \in {None, Some(ParentBlock)},
          active \in SUBSET PublicKeys :
          vb_ret' = [op |-> "validate_block", block |-> block, parent |-> parent,
                     active |-> active, active_verifiers |-> Cardinality(active),
                     result |-> validate_block(block, parent, Cardinality(active)),
                     mismatch |->
                        IF validate_block(block, parent, Cardinality(active)) = "HeightMismatch"
                        THEN Some(HeightMismatch(block, parent[1])) ELSE None]
    /\ UNCHANGED <<extVars, now, chainVars, verifierVars, schellingVars>>

\* The keys of a committee of fifty active verifiers
Committee ==
    << "v01", "v02", "v03", "v04", "v05", "v06", "v07", "v08", "v09", "v10",
       "v11", "v12", "v13", "v14", "v15", "v16", "v17", "v18", "v19", "v20",
       "v21", "v22", "v23", "v24", "v25", "v26", "v27", "v28", "v29", "v30",
       "v31", "v32", "v33", "v34", "v35", "v36", "v37", "v38", "v39", "v40",
       "v41", "v42", "v43", "v44", "v45", "v46", "v47", "v48", "v49", "v50" >>

\* A call of validate_block for a block that follows the parent and carries
\* validly signed attestations of the first k members of the committee, all
\* fifty members being active
ValidateCommitteeBlock ==
    /\ vb_ret.op = "new"
    /\ \E k \in {32, 33} :
          LET bare == Block_new(1, ParentBlock.hash, "k1", <<>>, ZERO, 1)
              block == [bare EXCEPT !.attestations =
                          [i \in 1..k |-> SignedAttestation(Committee[i], bare.hash, <<>>)]]
              active == {Committee[i] : i \in 1..Len(Committee)}
          IN vb_ret' = [op |-> "validate_block", block |-> block,
                        parent |-> Some(ParentBlock), active |-> active,
                        active_verifiers |-> Cardinality(active),
                        result |-> validate_block(block, Some(ParentBlock),
                                                  Cardinality(active)),
                        mismatch |-> None]
    /\ UNCHANGED <<extVars, now, chainVars, verifierVars, schellingVars>>

ValidateNext == ValidateBlock \/ ValidateCommitteeBlock

\* ------------------------------------------------------------------------
\* Jobs, solutions and verification results
\* ------------------------------------------------------------------------
\* hash_data over output bytes
hash_data(bytes) == <<"h", bytes>>

\* hash_data over the text of a verification script
hash_code(code) == <<"hc", code>>

\* JobPacket::compute_id: requester, input, description, bounty, created_at.
\* The verification spec is not part of the id.
compute_job_id(job) ==
    <<"job", job.requester, job.input, job.description, job.bounty, job.created_at>>

\* JobPacket::new; ttl is ttl_secs in ticks. The signature is the placeholder
\* until the requester signs.
JobPacket_new(requester, input, description, bounty, verification, created_at, ttl) ==
    LET job == [id |-> ZERO, requester |-> requester, input |-> input,
                description |-> description, bounty |-> bounty,
                verification |-> verification, created_at |-> created_at,
                expires_at |-> created_at + ttl, signature |-> NoSignature]
    IN [job EXCEPT !.id = compute_job_id(job)]

\* JobPacket::signing_bytes, over the fields the model carries
job_signing_bytes(job) ==
    <<job.id, job.requester, job.input, job.bounty, job.created_at, job.expires_at>>

\* SolutionCandidate::compute_id
compute_solution_id(solution) ==
    <<"sol", solution.job_id, solution.solver, solution.output_hash, solution.submitted_at>>

\* SolutionCandidate::new; the signature is the placeholder until the solver
\* signs
SolutionCandidate_new(job_id, solver, output, submitted_at) ==
    LET solution == [id |-> ZERO, job_id |-> job_id, solver |-> solver,
                     output |-> output, output_hash |-> hash_data(output),
                     submitted_at |-> submitted_at, is_honey_pot |-> FALSE,
                     signature |-> NoSignature]
    IN [solution EXCEPT !.id = compute_solution_id(solution)]

\* SolutionCandidate::signing_bytes
solution_signing_bytes(solution) ==
    <<solution.id, solution.job_id, solution.solver, solution.output_hash,
      solution.submitted_at>>

\* SolutionCandidate::create_honey_pot
create_honey_pot(job_id, solver, fake_output, submitted_at) ==
    [SolutionCandidate_new(job_id, solver, fake_output, submitted_at)
        EXCEPT !.is_honey_pot = TRUE]

\* VerificationResult::signing_bytes
result_signing_bytes(r) == <<r.solution_id, r.job_id, r.verifier, r.passed, r.verified_at>>

\* VerificationResult::new followed by the verifier's signature
SignedResult(solution_id, job_id, verifier, passed, error, verified_at) ==
    LET r == [solution_id |-> solution_id, job_id |-> job_id, verifier |-> verifier,
              passed |-> passed, error |-> error, verified_at |-> verified_at,
              signature |-> NoSignature]
    IN [r EXCEPT !.signature = sign(verifier, result_signing_bytes(r))]

\* The verification specs of the jobs of the model
HashMatch(expected_hash) == [kind |-> "HashMatch", expected_hash |-> expected_hash]

WasmVerifier(module_hash) == [kind |-> "WasmVerifier", module_hash |-> module_hash]

PythonScript(code_hash, code) == [kind |-> "PythonScript", code_hash |-> code_hash, code |-> code]

JavaScriptScript(code_hash, code) ==
    [kind |-> "JavaScriptScript", code_hash |-> code_hash, code |-> code]

SchellingPoint == [kind |-> "SchellingPoint"]

\* Jobs of the model, each with a time to live of one hour (120 ticks).  The
\* two HashMatch jobs have the same requester, input, description, bounty and
\* creation time, hence the same id.
Jobs ==
    { JobPacket_new("k3", <<1>>, "hash", 1, HashMatch(hash_data(<<1>>)), 0, 120),
      JobPacket_new("k3", <<1>>, "hash", 1, HashMatch(hash_data(<<0>>)), 0, 120),
      JobPacket_new("k3", <<1>>, "wasm", 1, WasmVerifier(<<"wasm", "m">>), 0, 120),
      JobPacket_new("k3", <<1>>, "py", 1,
                    PythonScript(hash_code("accept_all"), "accept_all"), 0, 120),
      JobPacket_new("k3", <<1>>, "js", 1,
                    JavaScriptScript(hash_code("output_is_input"), "output_is_input"), 0, 120),
      JobPacket_new("k3", <<1>>, "subjective", 1, SchellingPoint, 0, 120) }

\* Solutions submitted by a solver: both outputs for the HashMatch jobs, one
\* output for every other job
SolverSolutions ==
    { SolutionCandidate_new(job.id, "k2", output, 0) :
         job \in {j \in Jobs : j.verification.kind = "HashMatch"}, output \in {<<0>>, <<1>>} }
    \cup { SolutionCandidate_new(job.id, "k2", <<1>>, 0) : job \in Jobs }

\* ------------------------------------------------------------------------
\* ProofOfVerification::verify_solution
\* ------------------------------------------------------------------------
\* ProofOfVerification::new: cache_ttl_ms = 60,000 ms, i.e. two ticks
cache_ttl_ms == 2

\* VerificationRuntime::execute for the scripts of the model: what the
\* script's verify() returns on (input, output)
execute(code, input, output) ==
    IF code = "accept_all" THEN [ok |-> TRUE, value |-> TRUE]
    ELSE IF code = "output_is_input" THEN [ok |-> TRUE, value |-> (output = input)]
    ELSE [ok |-> FALSE, error |-> "ExecutionFailed"]

\* ProofOfVerification::verify_hash_match
verify_hash_match(output, expected_hash) ==
    IF hash_data(output) = expected_hash
    THEN [passed |-> TRUE, executed |-> FALSE, error |-> None]
    ELSE [passed |-> FALSE, executed |-> FALSE, error |-> Some("Hash mismatch")]

\* ProofOfVerification::verify_wasm: a placeholder that only looks at the
\* module hash
verify_wasm(input, output, module_hash) ==
    IF module_hash = ZERO
    THEN [passed |-> FALSE, executed |-> FALSE, error |-> Some("Invalid WASM module hash")]
    ELSE [passed |-> TRUE, executed |-> FALSE, error |-> None]

\* ProofOfVerification::verify_python_script; available is what
\* PythonRuntime::is_available() answers on this machine
verify_python_script(code_hash, code, input, output, available) ==
    IF hash_code(code) # code_hash
    THEN [passed |-> FALSE, executed |-> FALSE,
          error |-> Some("Python code hash mismatch - possible tampering")]
    ELSE IF ~available
    THEN [passed |-> FALSE, executed |-> FALSE,
          error |-> Some("Python 3.8+ not available on this system")]
    ELSE LET r == execute(code, input, output)
         IN IF r.ok THEN [passed |-> r.value, executed |-> TRUE, error |-> None]
            ELSE [passed |-> FALSE, executed |-> TRUE,
                  error |-> Some(<<"Python execution failed: ", r.error>>)]

\* ProofOfVerification::verify_javascript_script
verify_javascript_script(code_hash, code, input, output) ==
    IF hash_code(code) # code_hash
    THEN [passed |-> FALSE, executed |-> FALSE,
          error |-> Some("JavaScript code hash mismatch - possible tampering")]
    ELSE LET r == execute(code, input, output)
         IN IF r.ok THEN [passed |-> r.value, executed |-> TRUE, error |-> None]
            ELSE [passed |-> FALSE, executed |-> TRUE,
                  error |-> Some(<<"JavaScript execution failed: ", r.error>>)]

\* get_cached_result without the age test
get_cached_result_any_age(solution_id) ==
    IF solution_id \in DOMAIN verification_cache
    THEN Some(verification_cache[solution_id])
    ELSE None

\* ProofOfVerification::get_cached_result
get_cached_result(solution_id) ==
    IF /\ solution_id \in DOMAIN verification_cache
       /\ now - verification_cache[solution_id].verified_at < cache_ttl_ms
    THEN Some(verification_cache[solution_id])
    ELSE None

\* The dispatch of verify_solution on job.verification: (passed, error)
dispatch(job, solution, available) ==
    LET v == job.verification IN
    IF v.kind = "HashMatch" THEN verify_hash_match(solution.output, v.expected_hash)
    ELSE IF v.kind = "WasmVerifier" THEN verify_wasm(job.input, solution.output, v.module_hash)
    ELSE IF v.kind = "PythonScript"
         THEN verify_python_script(v.code_hash, v.code, job.input, solution.output, available)
    ELSE verify_javascript_script(v.code_hash, v.code, job.input, solution.output)

\* Mutant of verify_solution_outcome: the cache is consulted before the
\* solution is matched with the job
verify_solution_cache_first(job, solution, verifier, available) ==
    IF get_cached_result(solution.id) # None
    THEN [tag |-> "Ok", result |-> get_cached_result(solution.id)[1], cached |-> TRUE,
               executed |-> FALSE]
    ELSE IF solution.job_id # job.id THEN [tag |-> "Err", error |-> "SolutionMismatch"]
    ELSE IF job.verification.kind = "SchellingPoint"
         THEN [tag |-> "Err", error |-> "VerificationFailed"]
    ELSE LET d == dispatch(job, solution, available)
         IN [tag |-> "Ok",
             result |-> SignedResult(solution.id, job.id, verifier, d.passed, d.error, now),
             cached |-> FALSE, executed |-> d.executed]

\* What ProofOfVerification::verify_solution returns: Err(e), or Ok(result)
\* with cached telling whether the result came out of the cache and executed
\* whether a script runtime was run
verify_solution_outcome(job, solution, verifier, available) ==
    IF solution.job_id # job.id THEN [tag |-> "Err", error |-> "SolutionMismatch"]
    ELSE IF get_cached_result(solution.id) # None
         THEN [tag |-> "Ok", result |-> get_cached_result(solution.id)[1], cached |-> TRUE,
               executed |-> FALSE]
    ELSE IF job.verification.kind = "SchellingPoint"
         THEN [tag |-> "Err", error |-> "VerificationFailed"]
    ELSE LET d == dispatch(job, solution, available)
         IN [tag |-> "Ok",
             result |-> SignedResult(solution.id, job.id, verifier, d.passed, d.error, now),
             cached |-> FALSE, executed |-> d.executed]

\* ------------------------------------------------------------------------
\* Verifier, BlockProducer and honey pots
\* ------------------------------------------------------------------------
MaxVerify == 2

MaxHoneyPots == 1

\* The verifier node's own key
VerifierKey == "k1"

\* The key of the verifier's BlockProducer: Verifier::new derives a second
\* keypair from the bytes of the verifier's public key
ProducerKey == "k1p"

\* BlockProducerConfig::default
max_solutions_per_block == 1000

max_block_size == 1000000

min_verifications == 1

\* produce_block: estimated_size per verification
estimated_size == 256

\* BlockProducerConfig::default
BlockProducerConfig_default ==
    [max_solutions_per_block |-> max_solutions_per_block,
     max_block_size |-> max_block_size,
     min_verifications |-> min_verifications]

\* The configurations a producer is constructed with: the default, one
\* solution per block, and a block size that holds one verification
BlockProducerConfigs ==
    {BlockProducerConfig_default,
     [BlockProducerConfig_default EXCEPT !.max_solutions_per_block = 1],
     [BlockProducerConfig_default EXCEPT !.max_block_size = 2 * estimated_size - 1]}

\* ProofOfVerification::new, BlockProducer::new, HoneyPotGenerator::new,
\* HoneyPotDetector::new
VerifierInit ==
    /\ verification_cache = <<>>
    /\ pending_verifications = <<>>
    /\ current_height = 0
    /\ current_parent = ZERO
    /\ generated_ids = {}
    /\ known_honey_pots = {}
    /\ injected = {}
    /\ verify_calls = 0
    /\ pv_ret = [op |-> "new"]
    /\ block_config = BlockProducerConfig_default
    /\ produce_calls = 0

\* Bytes of the model are one bit wide
Bytes == 0..1

\* The marker b"__HONEYPOT__" appended to a fake output
HONEYPOT_MARKER == 255

\* Bitwise exclusive or of two bytes
xor(a, b) == (a + b) % 2

\* HoneyPotGenerator::generate_fake_output for a one-byte input: the input
\* XOR a random byte, followed by the marker
generate_fake_output(job, random_byte) ==
    <<xor(job.input[1], random_byte), HONEYPOT_MARKER>>

\* Verifier::generate_honey_pot: HoneyPotGenerator::generate with the
\* verifier's own key as fake solver, then HoneyPotDetector::register
GenerateHoneyPot ==
    /\ Cardinality(injected) < MaxHoneyPots
    /\ \E job \in Jobs, random_byte \in Bytes :
          LET honey_pot == create_honey_pot(job.id, VerifierKey,
                                            generate_fake_output(job, random_byte), now)
          IN /\ generated_ids' = generated_ids \cup {honey_pot.id}
             /\ known_honey_pots' = known_honey_pots \cup {honey_pot.id}
             /\ injected' = injected \cup {honey_pot}
             /\ pv_ret' = [op |-> "generate_honey_pot", job |-> job, solution |-> honey_pot]
    /\ UNCHANGED <<extVars, now, chainVars, vb_ret, producerVars, schellingVars>>

\* A solution as it arrives from the network: the fields are deserialized as
\* sent, so output need not be the pre-image of output_hash
ReceivedSolutions ==
    SolverSolutions \cup
    { [s EXCEPT !.output = output] :
         s \in {t \in SolverSolutions : t.output = <<0>>}, output \in {<<0>>, <<1>>} }

\* Mutant of push_passed: every result is appended
push_every(pending, result) == Append(pending, result)

\* BlockProducer::verify_solution, the pending buffer after an Ok(result):
\* only a passed result is appended
push_passed(pending, result) ==
    IF result.passed THEN Append(pending, result) ELSE pending

\* Verifier::process_solution: BlockProducer::verify_solution around
\* ProofOfVerification::verify_solution.  A fresh result is cached, a passed
\* result is appended to the pending buffer.
process_solution(job, solution, available) ==
    /\ LET r == verify_solution_outcome(job, solution, ProducerKey, available)
       IN /\ verification_cache' =
                IF r.tag = "Ok" /\ ~r.cached
                THEN MapInsert(verification_cache, solution.id, r.result)
                ELSE verification_cache
          /\ pending_verifications' =
                IF r.tag = "Ok"
                THEN push_passed(pending_verifications, r.result)
                ELSE pending_verifications
          /\ pv_ret' = [op |-> "process_solution", job |-> job, solution |-> solution,
                        is_honey_pot |-> solution.id \in known_honey_pots, ret |-> r]
    /\ verify_calls' = verify_calls + 1
    /\ UNCHANGED <<extVars, now, chainVars, vb_ret, current_height, current_parent, honeyVars,
                   schellingVars>>

\* Verifier::process_solution on the jobs and solutions of the model
ProcessSolution ==
    /\ verify_calls < MaxVerify
    /\ \E job \in Jobs, solution \in ReceivedSolutions \cup injected, available \in BOOLEAN :
          process_solution(job, solution, available)

\* Script jobs as they arrive from the network.  All have the same requester,
\* input, description, bounty and creation time, hence the same id; the
\* declared code_hash is that of the code, or that of another code.
ScriptJobs ==
    { JobPacket_new("k3", <<1>>, "script", 1, verification, 0, 120) :
         verification \in
            { PythonScript(hash_code(declared), code) :
                 declared \in {"accept_all", "broken"},
                 code \in {"accept_all", "output_is_input", "broken"} }
            \cup { JavaScriptScript(hash_code(declared), code) :
                      declared \in {"accept_all", "broken"},
                      code \in {"accept_all", "output_is_input", "broken"} } }

\* Solutions of the script jobs: one that repeats the input and one that does not
ScriptSolutions ==
    { SolutionCandidate_new(job.id, "k2", output, 0) :
         job \in ScriptJobs, output \in {<<0>>, <<1>>} }

\* Verifier::process_solution on the script jobs
ProcessScriptSolution ==
    /\ verify_calls < MaxVerify
    /\ \E job \in ScriptJobs, solution \in ScriptSolutions, available \in BOOLEAN :
          process_solution(job, solution, available)

\* BlockProducer::should_produce_block
should_produce_block == Len(pending_verifications) >= block_config.min_verifications

\* Block::signing_bytes
block_signing_bytes(block) ==
    <<block.hash, [i \in 1..Len(block.verifications) |-> block.verifications[i].solution_id]>>

\* The loop of produce_block without its two limits
take_count_unlimited == Len(pending_verifications)

\* The number of verifications the loop of produce_block takes off the
\* pending buffer
take_count ==
    LET by_size == block_config.max_block_size \div estimated_size
        cap == IF block_config.max_solutions_per_block < by_size
               THEN block_config.max_solutions_per_block ELSE by_size
    IN IF Len(pending_verifications) < cap THEN Len(pending_verifications) ELSE cap

\* BlockProducer::produce_block, for a non-empty pending buffer: the block
\* with the proposer signature and the producer's own attestation
produce_block(state_root) ==
    LET verifications == SubSeq(pending_verifications, 1, take_count)
        block == Block_new(current_height + 1, current_parent, ProducerKey,
                           verifications, state_root, now)
        signed == [block EXCEPT !.proposer_signature =
                                   sign(ProducerKey, block_signing_bytes(block))]
        verified_solutions == [i \in 1..Len(verifications) |-> verifications[i].solution_id]
    IN [signed EXCEPT !.attestations =
           Append(signed.attestations,
                  SignedAttestation(ProducerKey, signed.hash, verified_solutions))]

\* Verifier::try_produce_block
TryProduceBlock ==
    /\ IF should_produce_block
       THEN /\ pv_ret' = [op |-> "try_produce_block", block |-> Some(produce_block(ZERO))]
            /\ pending_verifications' =
                  SubSeq(pending_verifications, take_count + 1, Len(pending_verifications))
       ELSE /\ pv_ret' = [op |-> "try_produce_block", block |-> None]
            /\ UNCHANGED pending_verifications
    /\ UNCHANGED <<extVars, now, chainVars, vb_ret, verification_cache, current_height,
                   current_parent, verify_calls, honeyVars, schellingVars>>

\* The wall clock advances
AdvanceTime ==
    /\ now < MaxTime
    /\ now' = now + 1
    /\ UNCHANGED <<extVars, chainVars, vb_ret, verifierVars, schellingVars>>

VerifierNext == GenerateHoneyPot \/ ProcessSolution \/ TryProduceBlock \/ AdvanceTime

MaxProduce == 2

\* BlockProducer::new with a configuration, before the producer is used
NewProducer ==
    /\ verify_calls = 0
    /\ produce_calls = 0
    /\ \E config \in BlockProducerConfigs : block_config' = config
    /\ UNCHANGED <<now, coreVars, nonConfigVars, produce_calls>>

\* BlockProducer::produce_block called directly
ProduceBlock ==
    /\ produce_calls < MaxProduce
    /\ produce_calls' = produce_calls + 1
    /\ IF pending_verifications = <<>>
       THEN /\ pv_ret' = [op |-> "produce_block",
                          ret |-> [tag |-> "Err", error |-> "VerificationFailed"]]
            /\ UNCHANGED pending_verifications
       ELSE /\ pv_ret' = [op |-> "produce_block",
                          ret |-> [tag |-> "Ok", block |-> produce_block(ZERO)]]
            /\ pending_verifications' =
                  SubSeq(pending_verifications, take_count + 1, Len(pending_verifications))
    /\ UNCHANGED <<now, chainVars, vb_ret, schellingVars, nonConfigVars, block_config,
                   verification_cache, current_height, current_parent, verify_calls,
                   honeyVars>>

ProducerNext == NewProducer \/ ProcessSolution \/ ProduceBlock \/ AdvanceTime

ScriptNext == ProcessScriptSolution \/ AdvanceTime

\* ------------------------------------------------------------------------
\* HardClawNode (main.rs): init, then the event loop of run
\* ------------------------------------------------------------------------
\* The node has been initialised and process_verifier_tick has not returned
\* an error, on which run returns
NodeRunning ==
    /\ cs_ret.op # "new"
    /\ pv_ret.op = "process_verifier_tick" => pv_ret.result = "Ok"

\* HardClawNode::init: the genesis block is applied to the empty state
NodeInit ==
    /\ cs_ret.op = "new"
    /\ IF height = 0
       THEN apply_block(genesis(ProducerKey, now))
       ELSE UNCHANGED chainVars
    /\ UNCHANGED <<extVars, now, vb_ret, verifierVars, schellingVars>>

\* NetworkEvent::BlockReceived in the event loop
NodeBlockReceived == NodeRunning /\ BlockReceived

\* The body of the loop over the popped solutions in process_verifier_tick,
\* once per pair
NodeProcessSolution == NodeRunning /\ ProcessSolution

\* HardClawNode::process_verifier_tick after its loop: compute_state_root
\* (the node credits no account, the root is that of no leaves),
\* try_produce_block, and apply_block on the block returned
ProcessVerifierTick ==
    /\ NodeRunning
    /\ IF should_produce_block
       THEN LET block == produce_block(merkle_root(<<>>))
            IN /\ pending_verifications' =
                     SubSeq(pending_verifications, take_count + 1, Len(pending_verifications))
               /\ apply_block(block)
               /\ pv_ret' = [op |-> "process_verifier_tick", block |-> Some(block),
                             result |-> apply_block_result(block)]
       ELSE /\ pv_ret' = [op |-> "process_verifier_tick", block |-> None, result |-> "Ok"]
            /\ UNCHANGED <<pending_verifications, chainVars>>
    /\ UNCHANGED <<extVars, now, vb_ret, verification_cache, current_height, current_parent,
                   verify_calls, honeyVars, schellingVars>>

NodeNext == NodeInit \/ NodeBlockReceived \/ NodeProcessSolution \/ ProcessVerifierTick

\* ------------------------------------------------------------------------
\* Schelling-point voting
\* ------------------------------------------------------------------------
\* SchellingConfig::default.  commit_phase_ms and reveal_phase_ms are
\* 30,000 ms each, i.e. one tick.
min_voters == 3

commit_phase_ms == 1

reveal_phase_ms == 1

quality_threshold == 70

\* SchellingConsensus::new
SchellingInit ==
    /\ active_rounds = <<>>
    /\ completed_rounds = <<>>
    /\ sc_ret = [op |-> "new"]
    /\ rounds_started = 0

\* VoteResult::as_byte
as_byte(vote) == IF vote = "Accept" THEN 1 ELSE IF vote = "Reject" THEN 2 ELSE 0

\* Commitment::create: SHA3-256(value || nonce)
Commitment_create(value, nonce) == <<"c">> \o value \o <<nonce>>

\* The vote_data of VerificationVote::commit and ::reveal
vote_data(vote, quality_score, nonce) == <<as_byte(vote), quality_score, nonce>>

\* Mutant of Commitment_verify: every opening is accepted
Commitment_verify_any(commitment, value, nonce) == TRUE

\* Commitment::verify
Commitment_verify(commitment, value, nonce) == commitment = Commitment_create(value, nonce)

\* VerificationVote::commit
VerificationVote_commit(solution_id, voter, vote, quality_score, nonce, committed_at) ==
    [solution_id |-> solution_id,
     voter |-> voter,
     commitment |-> Commitment_create(vote_data(vote, quality_score, nonce), nonce),
     vote |-> Some(vote),
     nonce |-> Some(nonce),
     quality_score |-> Some(quality_score),
     committed_at |-> committed_at,
     revealed_at |-> None,
     signature |-> NoSignature]

\* Mutant of public_commitment: the revealed values stay in the stored vote
public_commitment_leaky(v) == v

\* VerificationVote::public_commitment
public_commitment(v) ==
    [v EXCEPT !.vote = None, !.nonce = None, !.quality_score = None, !.revealed_at = None]

\* VerificationVote::is_revealed
is_revealed(v) == v.vote # None

\* VotingRound::new
VotingRound_new(solution_id, commit_duration_ms, reveal_duration_ms) ==
    [solution_id |-> solution_id,
     phase |-> "Commit",
     commit_start |-> now,
     reveal_start |-> now + commit_duration_ms,
     end_time |-> now + commit_duration_ms + reveal_duration_ms,
     votes |-> <<>>]

\* Mutant of check_phase_transition: a round past its end_time is completed
\* from whatever phase it is in
check_phase_transition_skip(round) ==
    IF round.phase # "Complete" /\ now >= round.end_time
    THEN [round EXCEPT !.phase = "Complete"]
    ELSE IF round.phase = "Commit" /\ now >= round.reveal_start
    THEN [round EXCEPT !.phase = "Reveal"]
    ELSE round

\* VotingRound::check_phase_transition
check_phase_transition(round) ==
    IF round.phase = "Commit"
    THEN IF now >= round.reveal_start THEN [round EXCEPT !.phase = "Reveal"] ELSE round
    ELSE IF round.phase = "Reveal"
    THEN IF now >= round.end_time THEN [round EXCEPT !.phase = "Complete"] ELSE round
    ELSE round

\* VotingRound::reveal_count
reveal_count(round) == Cardinality({v \in DOMAIN round.votes : is_revealed(round.votes[v])})

\* VotingRound::has_quorum
has_quorum(round, min) == reveal_count(round) >= min

\* Mutant of majority_of: a tie counts as Accept
majority_of_tie_accepts(accept_votes, reject_votes) ==
    IF accept_votes >= reject_votes /\ accept_votes > 0 THEN Some("Accept")
    ELSE IF reject_votes > accept_votes THEN Some("Reject")
    ELSE None

\* VotingResults::from_votes, the majority: the strictly greater of the
\* Accept and Reject counts, none on a tie or without participating votes
majority_of(accept_votes, reject_votes) ==
    IF accept_votes + reject_votes > 0
    THEN IF accept_votes > reject_votes THEN Some("Accept")
         ELSE IF reject_votes > accept_votes THEN Some("Reject")
         ELSE None
    ELSE None

\* VotingResults::from_votes over the revealed votes of a round
\* (VotingRound::tally_votes).  avg_quality_score is kept as the pair
\* quality_sum / quality_count.
tally_votes(round) ==
    LET revealed == {v \in DOMAIN round.votes : is_revealed(round.votes[v])}
        voted(r) == {v \in revealed : round.votes[v].vote = Some(r)}
        accepters == voted("Accept")
        RECURSIVE Sum(_)
        Sum(S) == IF S = {} THEN 0
                  ELSE LET v == CHOOSE x \in S : TRUE
                       IN round.votes[v].quality_score[1] + Sum(S \ {v})
        accept_votes == Cardinality(accepters)
        reject_votes == Cardinality(voted("Reject"))
    IN [total_votes |-> Cardinality(revealed),
        accept_votes |-> accept_votes,
        reject_votes |-> reject_votes,
        abstain_votes |-> Cardinality(voted("Abstain")),
        quality_sum |-> Sum(accepters),
        quality_count |-> accept_votes,
        majority |-> majority_of(accept_votes, reject_votes)]

\* avg_quality_score >= f64::from(quality_threshold); the average is 0.0 when
\* nobody accepted
quality_reached(results) ==
    IF results.quality_count > 0
    THEN results.quality_sum >= quality_threshold * results.quality_count
    ELSE 0 >= quality_threshold

\* The solutions put to a vote: those of the subjective job
SubjectiveSolutions ==
    { s.id : s \in { t \in SolverSolutions :
                        \E j \in Jobs : j.id = t.job_id /\ j.verification.kind = "SchellingPoint" } }

\* What each voter may commit to and later try to open: (vote, quality, nonce)
Openings ==
    [k1 |-> {<<"Accept", 85, 0>>, <<"Reject", 60, 0>>},
     k2 |-> {<<"Accept", 60, 0>>, <<"Abstain", 60, 0>>},
     k3 |-> {<<"Reject", 60, 0>>}]

\* The votes handed to submit_commitment: built by the voter with
\* VerificationVote::commit at time 0, or carrying a commitment made with
\* another nonce than the one the voter will reveal
SubmittedVotes(solution_id) ==
    UNION { { VerificationVote_commit(solution_id, voter, c[1], c[2], c[3], 0) :
                 c \in Openings[voter] } : voter \in PublicKeys }
    \cup { [VerificationVote_commit(solution_id, "k3", "Reject", 60, 0, 0)
               EXCEPT !.commitment = <<"c", 2, 60, 0, 1>>] }

MaxRounds == 1

\* SchellingConsensus::start_round
StartRound ==
    /\ rounds_started < MaxRounds
    /\ rounds_started' = rounds_started + 1
    /\ \E solution_id \in SubjectiveSolutions :
          IF solution_id \in DOMAIN active_rounds
          THEN /\ sc_ret' = [op |-> "start_round", solution_id |-> solution_id,
                             result |-> "RoundAlreadyExists"]
               /\ UNCHANGED active_rounds
          ELSE /\ active_rounds' =
                     MapInsert(active_rounds, solution_id,
                               VotingRound_new(solution_id, commit_phase_ms, reveal_phase_ms))
               /\ sc_ret' = [op |-> "start_round", solution_id |-> solution_id,
                             result |-> "Ok"]
    /\ UNCHANGED <<extVars, now, chainVars, vb_ret, verifierVars, completed_rounds>>

\* VotingRound::add_commitment: the round after the call and the result
add_commitment(round, vote) ==
    IF vote.voter \in DOMAIN round.votes
    THEN [round |-> round, result |-> "DuplicateVote"]
    ELSE [round |-> [round EXCEPT !.votes = MapInsert(@, vote.voter, public_commitment(vote))],
          result |-> "Ok"]

\* SchellingConsensus::submit_commitment
SubmitCommitment ==
    /\ \E solution_id \in SubjectiveSolutions :
       \E vote \in SubmittedVotes(solution_id) :
          LET call == [op |-> "submit_commitment", solution_id |-> solution_id,
                       vote |-> vote]
          IN IF solution_id \notin DOMAIN active_rounds
             THEN /\ sc_ret' = call @@ [result |-> "RoundNotFound"]
                  /\ UNCHANGED active_rounds
             ELSE IF active_rounds[solution_id].phase # "Commit"
             THEN /\ sc_ret' = call @@ [result |-> "WrongPhase"]
                  /\ UNCHANGED active_rounds
             ELSE LET r == add_commitment(active_rounds[solution_id], vote)
                  IN /\ sc_ret' = call @@ [result |-> r.result]
                     /\ active_rounds' = [active_rounds EXCEPT ![solution_id] = r.round]
    /\ UNCHANGED <<extVars, now, chainVars, vb_ret, verifierVars, completed_rounds, rounds_started>>

\* VerificationVote::reveal: the vote after the call and whether it was Ok
reveal(v, vote, quality_score, nonce) ==
    IF Commitment_verify(v.commitment, vote_data(vote, quality_score, nonce), nonce)
    THEN [vote |-> [v EXCEPT !.vote = Some(vote), !.quality_score = Some(quality_score),
                             !.nonce = Some(nonce), !.revealed_at = Some(now)],
          ok |-> TRUE]
    ELSE [vote |-> v, ok |-> FALSE]

\* VotingRound::reveal_vote: the round after the call and the result
round_reveal_vote(round, voter, vote, quality_score, nonce) ==
    IF voter \notin DOMAIN round.votes
    THEN [round |-> round, result |-> "VoterNotFound"]
    ELSE LET r == reveal(round.votes[voter], vote, quality_score, nonce)
         IN IF r.ok
            THEN [round |-> [round EXCEPT !.votes[voter] = r.vote], result |-> "Ok"]
            ELSE [round |-> round, result |-> "CommitmentMismatch"]

\* SchellingConsensus::reveal_vote
RevealVote ==
    /\ \E solution_id \in SubjectiveSolutions, voter \in PublicKeys :
       \E opening \in Openings[voter] :
          LET vote == opening[1]
              quality_score == opening[2]
              nonce == opening[3]
              call == [op |-> "reveal_vote", solution_id |-> solution_id, voter |-> voter,
                       vote |-> vote, quality_score |-> quality_score, nonce |-> nonce]
          IN IF solution_id \notin DOMAIN active_rounds
             THEN /\ sc_ret' = call @@ [result |-> "RoundNotFound"]
                  /\ UNCHANGED active_rounds
             ELSE IF active_rounds[solution_id].phase # "Reveal"
             THEN /\ sc_ret' = call @@ [result |-> "WrongPhase"]
                  /\ UNCHANGED active_rounds
             ELSE LET r == round_reveal_vote(active_rounds[solution_id], voter, vote,
                                             quality_score, nonce)
                  IN /\ sc_ret' = call @@ [result |-> r.result]
                     /\ active_rounds' = [active_rounds EXCEPT ![solution_id] = r.round]
    /\ UNCHANGED <<extVars, now, chainVars, vb_ret, verifierVars, completed_rounds, rounds_started>>

\* The map without one key (HashMap::remove)
MapRemove(map, key) == [k \in DOMAIN map \ {key} |-> map[k]]

\* Mutant of is_deviant: an abstention against a majority is a deviation
is_deviant_abstain(vote, majority) ==
    vote # None /\ majority # None /\ vote # majority

\* finalize_round, the deviant filter on a voter's stored vote (an Option)
\* and the majority (an Option)
is_deviant(vote, majority) ==
    /\ vote # None
    /\ majority # None
    /\ vote # majority
    /\ vote # Some("Abstain")

\* The RoundOutcome finalize_round computes for a round in phase Complete
round_outcome(solution_id, round) ==
    LET results == tally_votes(round)
    IN [solution_id |-> solution_id,
        accepted |-> results.majority = Some("Accept") /\ quality_reached(results),
        results |-> results,
        deviants |-> { voter \in DOMAIN round.votes :
                          is_deviant(round.votes[voter].vote, results.majority) },
        finalized_at |-> now]

\* SchellingConsensus::finalize_round.  The round is taken out of
\* active_rounds before its phase is looked at.
FinalizeRound ==
    /\ \E solution_id \in SubjectiveSolutions :
          LET call == [op |-> "finalize_round", solution_id |-> solution_id]
          IN IF solution_id \notin DOMAIN active_rounds
             THEN /\ sc_ret' = call @@ [result |-> "RoundNotFound"]
                  /\ UNCHANGED <<active_rounds, completed_rounds>>
             ELSE LET round == active_rounds[solution_id]
                  IN /\ active_rounds' = MapRemove(active_rounds, solution_id)
                     /\ IF round.phase # "Complete"
                        THEN /\ sc_ret' = call @@ [result |-> "RoundNotComplete"]
                             /\ UNCHANGED completed_rounds
                        ELSE LET outcome == round_outcome(solution_id, round)
                             IN /\ completed_rounds' =
                                      MapInsert(completed_rounds, solution_id,
                                                [round |-> round, outcome |-> outcome])
                                /\ sc_ret' = call @@
                                      [result |-> "Ok", outcome |-> outcome]
    /\ UNCHANGED <<extVars, now, chainVars, vb_ret, verifierVars, rounds_started>>

\* SchellingConsensus::tick
Tick ==
    /\ active_rounds' =
          [id \in DOMAIN active_rounds |-> check_phase_transition(active_rounds[id])]
    /\ sc_ret' = [op |-> "tick"]
    /\ UNCHANGED <<extVars, now, chainVars, vb_ret, verifierVars, completed_rounds, rounds_started>>

SchellingNext ==
    StartRound \/ SubmitCommitment \/ RevealVote \/ FinalizeRound \/ Tick \/ AdvanceTime

\* ------------------------------------------------------------------------
\* StakeManager (verifier/stake.rs). Amounts are in whole HCLAW; every
\* amount staked below is a multiple of 100 HCLAW, so that
\* HclawAmount::percentage divides without remainder exactly as it does on
\* the 10^18 base units.
\* ------------------------------------------------------------------------
MaxStakeCalls == 4

MaxStakeTime == 40320

\* MAX_SUPPLY, in whole HCLAW
MAX_SUPPLY == 1000000000

\* StakeManager::new: min_stake = from_hclaw(1000)
min_stake == 1000

\* StakeManager::DEFAULT_UNBONDING_PERIOD_MS, seven days in ticks of 30,000 ms
unbonding_period_ms == 20160

Addresses == {"a1", "a2"}

\* Amounts offered to stake: one below min_stake, one that meets it
StakeAmounts == {500, 1000}

RewardAmounts == {100}

\* SlashingReason; the payload of a reason does not enter any computation
SlashingReasons == {"HoneyPotApproval", "InvalidVerification", "DoubleSigning", "Downtime"}

\* SlashingReason::slash_percentage
slash_percentage(reason) ==
    CASE reason = "HoneyPotApproval" -> 100
      [] reason = "InvalidVerification" -> 10
      [] reason = "DoubleSigning" -> 100
      [] reason = "Downtime" -> 1

\* HclawAmount::percentage
percentage(amount, percent) == (amount * percent) \div 100

\* HclawAmount::saturating_add caps at MAX_SUPPLY
saturating_add(a, b) == IF a + b > MAX_SUPPLY THEN MAX_SUPPLY ELSE a + b

\* HclawAmount::saturating_sub floors at zero
saturating_sub(a, b) == IF b > a THEN 0 ELSE a - b

\* StakeInfo::new
StakeInfo_new(address, amount, staked_at) ==
    [address |-> address, amount |-> amount, staked_at |-> staked_at,
     withdrawable_at |-> None, is_active |-> TRUE, total_rewards |-> 0,
     total_slashed |-> 0, slash_history |-> <<>>]

\* Mutant of effective_stake: plain subtraction
effective_stake_wrapping(stake) == stake.amount - stake.total_slashed

\* StakeInfo::effective_stake
effective_stake(stake) == saturating_sub(stake.amount, stake.total_slashed)

\* StakeInfo::can_verify
StakeInfo_can_verify(stake, min) == stake.is_active /\ effective_stake(stake) >= min

\* StakeInfo::apply_slash: the stake after the slash
apply_slash(stake, reason, timestamp) ==
    LET slash_percent == slash_percentage(reason)
        slash_amount == percentage(stake.amount, slash_percent)
    IN [stake EXCEPT
          !.total_slashed = saturating_add(stake.total_slashed, slash_amount),
          !.slash_history = Append(stake.slash_history,
                                   [reason |-> reason, amount |-> slash_amount,
                                    timestamp |-> timestamp]),
          !.is_active = IF slash_percent = 100 THEN FALSE ELSE stake.is_active]

\* StakeInfo::add_rewards
add_rewards(stake, amount) ==
    [stake EXCEPT !.total_rewards = saturating_add(stake.total_rewards, amount)]

\* StakeManager::can_verify
can_verify(ledger, address) ==
    address \in DOMAIN ledger /\ StakeInfo_can_verify(ledger[address], min_stake)

\* StakeManager::active_verifier_count
active_verifier_count(ledger) ==
    Cardinality({a \in DOMAIN ledger : ledger[a].is_active})

\* StakeManager::new
StakeInit ==
    /\ stakes = <<>>
    /\ total_staked = 0
    /\ stake_calls = 0
    /\ unstake_begun = {}
    /\ st_ret = [op |-> "new"]

StakeOk(value) == [tag |-> "Ok", error |-> "", value |-> value]

StakeErr(error, value) == [tag |-> "Err", error |-> error, value |-> value]

\* StakeManager::stake
Stake ==
    /\ stake_calls < MaxStakeCalls
    /\ stake_calls' = stake_calls + 1
    /\ \E address \in Addresses, amount \in StakeAmounts :
          IF amount < min_stake
          THEN /\ st_ret' = [op |-> "stake", address |-> address, amount |-> amount,
                             result |-> StakeErr("InsufficientStake", amount)]
               /\ UNCHANGED <<stakes, total_staked>>
          ELSE LET stake_info == IF address \in DOMAIN stakes THEN stakes[address]
                                 ELSE StakeInfo_new(address, 0, now)
               IN /\ stakes' = MapInsert(stakes, address,
                                  [stake_info EXCEPT
                                     !.amount = saturating_add(stake_info.amount, amount),
                                     !.is_active = TRUE,
                                     !.withdrawable_at = None])
                  /\ total_staked' = saturating_add(total_staked, amount)
                  /\ st_ret' = [op |-> "stake", address |-> address, amount |-> amount,
                                result |-> StakeOk(0)]
    /\ UNCHANGED <<now, coreVars, nonStakeVars, unstake_begun>>

\* StakeManager::begin_unstake
BeginUnstake ==
    /\ stake_calls < MaxStakeCalls
    /\ stake_calls' = stake_calls + 1
    /\ \E address \in Addresses :
          IF address \notin DOMAIN stakes
          THEN /\ st_ret' = [op |-> "begin_unstake", address |-> address,
                             result |-> StakeErr("NotFound", 0)]
               /\ UNCHANGED <<stakes, unstake_begun>>
          ELSE IF stakes[address].withdrawable_at # None
          THEN /\ st_ret' = [op |-> "begin_unstake", address |-> address,
                             result |-> StakeErr("AlreadyUnstaking", 0)]
               /\ UNCHANGED <<stakes, unstake_begun>>
          ELSE /\ stakes' = [stakes EXCEPT
                               ![address].is_active = FALSE,
                               ![address].withdrawable_at = Some(now + unbonding_period_ms)]
               /\ unstake_begun' = unstake_begun \cup {address}
               /\ st_ret' = [op |-> "begin_unstake", address |-> address,
                             result |-> StakeOk(0)]
    /\ UNCHANGED <<now, coreVars, nonStakeVars, total_staked>>

\* Mutant of complete_unstake: the unbonding period is not awaited
complete_unstake_ungated(ledger, address, t) ==
    IF address \notin DOMAIN ledger THEN StakeErr("NotFound", 0)
    ELSE IF ledger[address].withdrawable_at = None THEN StakeErr("NotUnstaking", 0)
    ELSE StakeOk(effective_stake(ledger[address]))

\* StakeManager::complete_unstake: what the call returns at time t
complete_unstake(ledger, address, t) ==
    IF address \notin DOMAIN ledger THEN StakeErr("NotFound", 0)
    ELSE IF ledger[address].withdrawable_at = None THEN StakeErr("NotUnstaking", 0)
    ELSE IF t < ledger[address].withdrawable_at[1]
         THEN StakeErr("UnbondingNotComplete", ledger[address].withdrawable_at[1])
    ELSE StakeOk(effective_stake(ledger[address]))

\* A call of StakeManager::complete_unstake: on success the stake leaves
\* total_staked and the entry is removed
CompleteUnstake ==
    /\ stake_calls < MaxStakeCalls
    /\ stake_calls' = stake_calls + 1
    /\ \E address \in Addresses :
          LET result == complete_unstake(stakes, address, now)
          IN /\ st_ret' = [op |-> "complete_unstake", address |-> address,
                           result |-> result]
             /\ IF result.tag = "Ok"
                THEN /\ total_staked' = saturating_sub(total_staked, stakes[address].amount)
                     /\ stakes' = MapRemove(stakes, address)
                     /\ unstake_begun' = unstake_begun \ {address}
                ELSE UNCHANGED <<stakes, total_staked, unstake_begun>>
    /\ UNCHANGED <<now, coreVars, nonStakeVars>>

\* StakeManager::slash
Slash ==
    /\ stake_calls < MaxStakeCalls
    /\ stake_calls' = stake_calls + 1
    /\ \E address \in Addresses, reason \in SlashingReasons :
          IF address \notin DOMAIN stakes
          THEN /\ st_ret' = [op |-> "slash", address |-> address, reason |-> reason,
                             result |-> StakeErr("NotFound", 0)]
               /\ UNCHANGED stakes
          ELSE /\ stakes' = [stakes EXCEPT
                               ![address] = apply_slash(stakes[address], reason, now)]
               /\ st_ret' = [op |-> "slash", address |-> address, reason |-> reason,
                             result |-> StakeOk(percentage(stakes[address].amount,
                                                           slash_percentage(reason)))]
    /\ UNCHANGED <<now, coreVars, nonStakeVars, total_staked, unstake_begun>>

\* StakeManager::distribute_reward
DistributeReward ==
    /\ stake_calls < MaxStakeCalls
    /\ stake_calls' = stake_calls + 1
    /\ \E address \in Addresses, amount \in RewardAmounts :
          IF address \notin DOMAIN stakes
          THEN /\ st_ret' = [op |-> "distribute_reward", address |-> address,
                             amount |-> amount, result |-> StakeErr("NotFound", 0)]
               /\ UNCHANGED stakes
          ELSE /\ stakes' = [stakes EXCEPT
                               ![address] = add_rewards(stakes[address], amount)]
               /\ st_ret' = [op |-> "distribute_reward", address |-> address,
                             amount |-> amount, result |-> StakeOk(0)]
    /\ UNCHANGED <<now, coreVars, nonStakeVars, total_staked, unstake_begun>>

\* Time passes between two calls: one tick short of the unbonding period,
\* or the whole period
Elapse ==
    /\ \E d \in {unbonding_period_ms - 1, unbonding_period_ms} :
          /\ now + d <= MaxStakeTime
          /\ now' = now + d
    /\ UNCHANGED <<coreVars, extVars>>

StakeNext ==
    Stake \/ BeginUnstake \/ CompleteUnstake \/ Slash \/ DistributeReward \/ Elapse

\* ------------------------------------------------------------------------
\* HoneyPotDetector (verifier/honey_pot.rs)
\* ------------------------------------------------------------------------
\* HoneyPotDetector::new, the offenders half (known_honey_pots starts in
\* VerifierInit)
DetectorInit ==
    /\ offenders = {}
    /\ hd_ret = [op |-> "new"]

\* Mutant of record_offender: the miner is recorded whatever the id
record_offender_always(pots, flagged, miner, solution_id) == flagged \cup {miner}

\* HoneyPotDetector::record_offender: the offenders after the call
record_offender(pots, flagged, miner, solution_id) ==
    IF solution_id \in pots THEN flagged \cup {miner} ELSE flagged

\* HoneyPotDetector::register
Register ==
    /\ \E solution \in SolverSolutions :
          /\ known_honey_pots' = known_honey_pots \cup {solution.id}
          /\ hd_ret' = [op |-> "register", solution_id |-> solution.id]
    /\ UNCHANGED <<now, chainVars, vb_ret, producerVars, generated_ids, injected, pv_ret,
                   schellingVars, nonDetectorVars, offenders>>

\* HoneyPotDetector::record_offender
RecordOffender ==
    /\ \E miner \in PublicKeys, solution \in SolverSolutions :
          /\ offenders' = record_offender(known_honey_pots, offenders, miner, solution.id)
          /\ hd_ret' = [op |-> "record_offender", miner |-> miner,
                        solution_id |-> solution.id]
    /\ UNCHANGED <<now, coreVars, nonDetectorVars>>

\* HoneyPotDetector::clear_offender
ClearOffender ==
    /\ \E miner \in PublicKeys :
          /\ offenders' = offenders \ {miner}
          /\ hd_ret' = [op |-> "clear_offender", miner |-> miner]
    /\ UNCHANGED <<now, coreVars, nonDetectorVars>>

DetectorNext == Register \/ RecordOffender \/ ClearOffender

\* ------------------------------------------------------------------------
\* Mempool (mempool/mod.rs)
\* ------------------------------------------------------------------------
MaxMempoolCalls == 6

\* Mempool.max_jobs. Mempool::new sets it to DEFAULT_MAX_JOBS = 10,000; the
\* model holds two jobs at most, so that a full mempool occurs.
max_jobs == 2

\* Mempool::DEFAULT_MAX_SOLUTIONS
max_solutions == 50000

\* ONE_HCLAW in the unit of the bounties below, a tenth of a token (10^17
\* base units)
ONE_HCLAW == 10

\* HclawAmount::whole_hclaw
whole_hclaw(amount) == amount \div ONE_HCLAW

\* Mempool::new
MempoolInit ==
    /\ jobs = <<>>
    /\ job_queue = EmptyBag
    /\ solutions = <<>>
    /\ solutions_by_job = <<>>
    /\ mp_ret = [op |-> "new", result |-> "Ok"]
    /\ mp_calls = 0
    /\ popped = {}

\* Jobs that arrive in a JobReceived event: a job of 1.5 tokens signed by the
\* requester, a job of 1.9 tokens left with the placeholder signature or
\* signed by a key that is not the requester's, and a signed job of 2 tokens
\* that lives for one tick only.
ReceivedJobs ==
    LET hashJob == JobPacket_new("k3", <<1>>, "hash", 15, HashMatch(hash_data(<<1>>)), 0, 120)
        wasmJob == JobPacket_new("k3", <<1>>, "wasm", 19, WasmVerifier(<<"wasm", "m">>), 0, 120)
        shortJob == JobPacket_new("k3", <<1>>, "py", 20,
                                  PythonScript(hash_code("accept_all"), "accept_all"), 0, 1)
    IN { [hashJob EXCEPT !.signature = sign("k3", job_signing_bytes(hashJob))],
         wasmJob,
         [wasmJob EXCEPT !.signature = sign("k1", job_signing_bytes(wasmJob))],
         [shortJob EXCEPT !.signature = sign("k3", job_signing_bytes(shortJob))] }

\* Solutions handed to add_solution: for every received job one signed by its
\* solver, for the job of 1.5 tokens a second, unsigned one, and an unsigned
\* solution of a job the mempool never saw.
SubmittedSolutions ==
    { [x EXCEPT !.signature = sign("k2", solution_signing_bytes(x))] :
         x \in { SolutionCandidate_new(job.id, "k2", <<1>>, 0) : job \in ReceivedJobs } }
    \cup { SolutionCandidate_new(job.id, "k2", <<0>>, 0) :
              job \in {r \in ReceivedJobs : r.description = "hash"} }
    \cup { SolutionCandidate_new(ZERO, "k2", <<0>>, 0) }

\* Mutant of add_job: the capacity is not checked
add_job_unbounded(held, job, t) ==
    IF job.id \in DOMAIN held THEN "DuplicateJob"
    ELSE IF t > job.expires_at THEN "Expired"
    ELSE "Ok"

\* Mempool::add_job, the checks in the order of the code
add_job(held, job, t) ==
    IF job.id \in DOMAIN held THEN "DuplicateJob"
    ELSE IF Cardinality(DOMAIN held) >= max_jobs THEN "Full"
    ELSE IF t > job.expires_at THEN "Expired"
    ELSE "Ok"

\* HardClawNode::handle_network_event, NetworkEvent::JobReceived: a call of
\* Mempool::add_job
AddJob ==
    /\ mp_calls < MaxMempoolCalls
    /\ mp_calls' = mp_calls + 1
    /\ \E job \in ReceivedJobs :
          LET result == add_job(jobs, job, now)
          IN /\ mp_ret' = [op |-> "add_job", arg |-> job, result |-> result]
             /\ IF result = "Ok"
                THEN /\ jobs' = MapInsert(jobs, job.id, job)
                     /\ job_queue' = job_queue (+)
                           SetToBag({[job |-> job, priority |-> whole_hclaw(job.bounty),
                                      added_at |-> now]})
                ELSE UNCHANGED <<jobs, job_queue>>
    /\ UNCHANGED <<now, coreVars, nonMempoolVars, solutions, solutions_by_job, popped>>

\* Mempool::add_solution
AddSolution ==
    /\ mp_calls < MaxMempoolCalls
    /\ mp_calls' = mp_calls + 1
    /\ \E solution \in SubmittedSolutions :
          LET result == IF solution.job_id \notin DOMAIN jobs THEN "JobNotFound"
                        ELSE IF solution.id \in DOMAIN solutions THEN "DuplicateSolution"
                        ELSE IF Cardinality(DOMAIN solutions) >= max_solutions THEN "Full"
                        ELSE "Ok"
              indexed == IF solution.job_id \in DOMAIN solutions_by_job
                         THEN solutions_by_job[solution.job_id] ELSE <<>>
          IN /\ mp_ret' = [op |-> "add_solution", arg |-> solution, result |-> result]
             /\ IF result = "Ok"
                THEN /\ solutions_by_job' = MapInsert(solutions_by_job, solution.job_id,
                                                      Append(indexed, solution.id))
                     /\ solutions' = MapInsert(solutions, solution.id, solution)
                ELSE UNCHANGED <<solutions, solutions_by_job>>
    /\ UNCHANGED <<now, coreVars, nonMempoolVars, jobs, job_queue, popped>>

\* Mempool::pop_job at time t, as the set of its possible outcomes: the
\* returned job with the heap and the job map the call leaves behind.
\* BinaryHeap::pop takes a greatest entry by Ord for PrioritizedJob (higher
\* priority, then smaller added_at); among entries that compare equal the
\* heap may hand out any. An entry whose job is no longer held is dropped; a
\* held job is removed, and returned unless it has expired.
RECURSIVE pop_job(_, _, _)
pop_job(queue, held, t) ==
    IF BagToSet(queue) = {} THEN {[ret |-> None, queue |-> queue, held |-> held]}
    ELSE UNION {
           LET rest == queue (-) SetToBag({e})
               id == e.job.id
           IN IF id \notin DOMAIN held THEN pop_job(rest, held, t)
              ELSE IF t > held[id].expires_at
                   THEN pop_job(rest, MapRemove(held, id), t)
              ELSE {[ret |-> Some(held[id]), queue |-> rest, held |-> MapRemove(held, id)]} :
           e \in { x \in BagToSet(queue) :
                     \A y \in BagToSet(queue) :
                        \/ x.priority > y.priority
                        \/ x.priority = y.priority /\ x.added_at <= y.added_at } }

\* A call of Mempool::pop_job
PopJob ==
    /\ mp_calls < MaxMempoolCalls
    /\ mp_calls' = mp_calls + 1
    /\ \E outcome \in pop_job(job_queue, jobs, now) :
          /\ mp_ret' = [op |-> "pop_job", arg |-> <<>>, result |-> outcome.ret]
          /\ job_queue' = outcome.queue
          /\ jobs' = outcome.held
    /\ UNCHANGED <<now, coreVars, nonMempoolVars, solutions, solutions_by_job, popped>>

\* Mutant of pop_solutions: a solution of a held job is returned and stays
\* in the mempool
pop_solutions_keep(held, sols, index, limit) ==
    {[results |-> <<>>, sols |-> sols, index |-> index]}
    \cup {[results |-> << <<held[sols[id].job_id], sols[id]>> >>, sols |-> sols,
           index |-> index] :
            id \in {x \in DOMAIN sols : sols[x].job_id \in DOMAIN held}}

\* Mempool::pop_solutions, as the set of its possible outcomes: the returned
\* pairs with the solution map and the index the call leaves behind. The keys
\* of solutions_by_job are visited in the order of the HashMap, which may be
\* any; the loop over the keys ends once limit pairs are collected; the ids
\* of a key whose job is held are popped off the end of its Vec.
pop_solutions(held, sols, index, limit) ==
    LET RECURSIVE drain(_, _)
        drain(k, st) ==
            LET ids == st.index[k] IN
            IF ids = <<>> THEN st
            ELSE LET sol_id == ids[Len(ids)]
                     shorter == [st.index EXCEPT ![k] = SubSeq(ids, 1, Len(ids) - 1)]
                 IN IF sol_id \in DOMAIN st.sols
                    THEN LET taken == [results |-> Append(st.results,
                                                          <<held[k], st.sols[sol_id]>>),
                                       sols |-> MapRemove(st.sols, sol_id),
                                       index |-> shorter]
                         IN IF Len(taken.results) >= limit THEN taken ELSE drain(k, taken)
                    ELSE drain(k, [st EXCEPT !.index = shorter])
        RECURSIVE visit(_, _)
        visit(keys, st) ==
            IF keys = {} \/ Len(st.results) >= limit THEN {st}
            ELSE UNION { visit(keys \ {k}, IF k \in DOMAIN held THEN drain(k, st) ELSE st) :
                         k \in keys }
    IN visit(DOMAIN index, [results |-> <<>>, sols |-> sols, index |-> index])

\* A call of Mempool::pop_solutions
PopSolutions ==
    /\ mp_calls < MaxMempoolCalls
    /\ mp_calls' = mp_calls + 1
    /\ \E limit \in 0..2 :
          \E outcome \in pop_solutions(jobs, solutions, solutions_by_job, limit) :
             /\ mp_ret' = [op |-> "pop_solutions", arg |-> limit, result |-> outcome.results]
             /\ solutions' = outcome.sols
             /\ solutions_by_job' = outcome.index
             /\ popped' = popped \cup
                   {outcome.results[i][2].id : i \in 1..Len(outcome.results)}
    /\ UNCHANGED <<now, coreVars, nonMempoolVars, jobs, job_queue>>

\* Mempool::remove_job
RemoveJob ==
    /\ mp_calls < MaxMempoolCalls
    /\ mp_calls' = mp_calls + 1
    /\ \E id \in {job.id : job \in ReceivedJobs} :
          /\ mp_ret' = [op |-> "remove_job", arg |-> id, result |-> "Ok"]
          /\ jobs' = MapRemove(jobs, id)
          /\ IF id \in DOMAIN solutions_by_job
             THEN /\ solutions_by_job' = MapRemove(solutions_by_job, id)
                  /\ solutions' = [x \in DOMAIN solutions \
                                      {solutions_by_job[id][i] :
                                          i \in 1..Len(solutions_by_job[id])}
                                   |-> solutions[x]]
             ELSE UNCHANGED <<solutions, solutions_by_job>>
    /\ UNCHANGED <<now, coreVars, nonMempoolVars, job_queue, popped>>

MempoolNext == AddJob \/ AddSolution \/ PopJob \/ PopSolutions \/ RemoveJob \/ AdvanceTime

\* Mempool::cleanup_expired: remove_job for every held job that has expired
CleanupExpired ==
    /\ mp_calls < MaxMempoolCalls
    /\ mp_calls' = mp_calls + 1
    /\ LET expired == {id \in DOMAIN jobs : now > jobs[id].expires_at}
           indexed == expired \cap DOMAIN solutions_by_job
           removed == UNION {{solutions_by_job[id][i] : i \in 1..Len(solutions_by_job[id])} :
                                id \in indexed}
       IN /\ jobs' = [id \in DOMAIN jobs \ expired |-> jobs[id]]
          /\ solutions_by_job' =
                [id \in DOMAIN solutions_by_job \ expired |-> solutions_by_job[id]]
          /\ solutions' = [x \in DOMAIN solutions \ removed |-> solutions[x]]
          /\ mp_ret' = [op |-> "cleanup_expired", arg |-> expired, result |-> "Ok"]
    /\ UNCHANGED <<now, coreVars, nonMempoolVars, job_queue, popped>>

CleanupNext == MempoolNext \/ CleanupExpired

\* ------------------------------------------------------------------------
\* Account balances (state/mod.rs)
\* ------------------------------------------------------------------------
MaxAccountCalls == 4

\* Amounts credited: a small one and one above half of MAX_SUPPLY
CreditAmounts == {100, 600000000}

\* Amounts written to AccountState.staked
StakedAmounts == {80}

TransferAmounts == {30, 500000000}

AccountInit ==
    /\ accounts = <<>>
    /\ acct_ret = [op |-> "new"]
    /\ acct_calls = 0

\* ChainState::get_or_create_account: the map after entry(address).or_default()
get_or_create_account(accts, address) ==
    IF address \in DOMAIN accts THEN accts
    ELSE MapInsert(accts, address, [balance |-> 0, staked |-> 0])

\* ChainState::balance_of
balance_of(accts, address) ==
    IF address \in DOMAIN accts THEN accts[address].balance ELSE 0

\* AccountState::available_balance
available_balance(account) == saturating_sub(account.balance, account.staked)

\* AccountState::credit
credit(account, amount) ==
    [account EXCEPT !.balance = saturating_add(account.balance, amount)]

\* AccountState::debit
debit(account, amount) ==
    IF available_balance(account) < amount
    THEN [result |-> "InsufficientBalance", account |-> account]
    ELSE [result |-> "Ok",
          account |-> [account EXCEPT !.balance = saturating_sub(account.balance, amount)]]

\* ChainState::transfer: the result and the accounts map it leaves
transfer(accts, from, to, amount) ==
    LET created == get_or_create_account(accts, from)
        debited == debit(created[from], amount)
    IN IF debited.result # "Ok"
       THEN [result |-> debited.result, accounts |-> created]
       ELSE LET after_debit == [created EXCEPT ![from] = debited.account]
                with_to == get_or_create_account(after_debit, to)
            IN [result |-> "Ok",
                accounts |-> [with_to EXCEPT ![to] = credit(with_to[to], amount)]]

\* get_or_create_account(address).credit(amount)
CreditAccount ==
    /\ acct_calls < MaxAccountCalls
    /\ acct_calls' = acct_calls + 1
    /\ \E address \in Addresses, amount \in CreditAmounts :
          LET created == get_or_create_account(accounts, address)
          IN /\ accounts' = [created EXCEPT ![address] = credit(created[address], amount)]
             /\ acct_ret' = [op |-> "credit", address |-> address, amount |-> amount]
    /\ UNCHANGED <<now, coreVars, nonAccountVars>>

\* get_or_create_account(address).staked = amount (the field is public)
SetStaked ==
    /\ acct_calls < MaxAccountCalls
    /\ acct_calls' = acct_calls + 1
    /\ \E address \in Addresses, amount \in StakedAmounts :
          LET created == get_or_create_account(accounts, address)
          IN /\ accounts' = [created EXCEPT ![address].staked = amount]
             /\ acct_ret' = [op |-> "set_staked", address |-> address, amount |-> amount]
    /\ UNCHANGED <<now, coreVars, nonAccountVars>>

\* ChainState::transfer
Transfer ==
    /\ acct_calls < MaxAccountCalls
    /\ acct_calls' = acct_calls + 1
    /\ \E from \in Addresses, to \in Addresses, amount \in TransferAmounts :
          LET outcome == transfer(accounts, from, to, amount)
          IN /\ accounts' = outcome.accounts
             /\ acct_ret' = [op |-> "transfer", from |-> from, to |-> to,
                              amount |-> amount, result |-> outcome.result]
    /\ UNCHANGED <<now, coreVars, nonAccountVars>>

AccountNext == CreditAccount \/ SetStaked \/ Transfer

\* ------------------------------------------------------------------------
\* Fee distribution and burns (tokenomics/mod.rs, tokenomics/burn.rs)
\* ------------------------------------------------------------------------
MaxTokenCalls == 4

\* Bounties in base units: below 100, a multiple of 100, and in between
Bounties == {1, 50, 100, 250}

\* TokenEconomicsConfig::default
solver_share == 95

verifier_share == 4

burn_share == 1

\* BurnManager::new
max_history == 10000

TokenInit ==
    /\ total_burned = 0
    /\ burns_by_reason = <<>>
    /\ burn_history = <<>>
    /\ tk_ret = [op |-> "new"]
    /\ tk_calls = 0

\* FeeDistributor::distribute: each share is that percentage of the bounty
distribute(total, solver, verifier) ==
    [solver |-> solver,
     verifier |-> verifier,
     solver_amount |-> percentage(total, solver_share),
     verifier_amount |-> percentage(total, verifier_share),
     burn_amount |-> percentage(total, burn_share)]

\* BurnManager::burn: the manager's three fields after the burn
burn(total, by_reason, history, amount, reason, t) ==
    LET before == IF reason \in DOMAIN by_reason THEN by_reason[reason] ELSE 0
        pushed == Append(history, [amount |-> amount, reason |-> reason, timestamp |-> t])
    IN [total_burned |-> saturating_add(total, amount),
        burns_by_reason |-> MapInsert(by_reason, reason, saturating_add(before, amount)),
        burn_history |-> IF Len(pushed) > max_history THEN Tail(pushed) ELSE pushed]

\* TokenEconomics::process_job_completion
ProcessJobCompletion ==
    /\ tk_calls < MaxTokenCalls
    /\ tk_calls' = tk_calls + 1
    /\ \E bounty \in Bounties, solver \in Addresses, verifier \in Addresses :
          LET distribution == distribute(bounty, solver, verifier)
              burned == burn(total_burned, burns_by_reason, burn_history,
                             distribution.burn_amount, "JobFee", now)
          IN /\ total_burned' = burned.total_burned
             /\ burns_by_reason' = burned.burns_by_reason
             /\ burn_history' = burned.burn_history
             /\ tk_ret' = [op |-> "process_job_completion", bounty |-> bounty,
                            result |-> distribution]
    /\ UNCHANGED <<now, coreVars, nonTokenVars>>

TokenNext == ProcessJobCompletion \/ AdvanceTime

\* ------------------------------------------------------------------------
\* Script runtimes (verifier/runtime/python.rs, verifier/runtime/javascript.rs)
\* ------------------------------------------------------------------------
\* Values a script's verify() can return, tagged with their type
ReturnValues ==
    {<<"bool", TRUE>>, <<"bool", FALSE>>, <<"int", 0>>, <<"int", 1>>,
     <<"str", "">>, <<"str", "no">>, <<"none">>, <<"list", <<>>>>, <<"list", <<0>>>>}

\* Lines a script writes to standard output itself, as <<prefix, rest>>
PrintedLines ==
    {<<>>, <<<<"", "checking">>>>, <<<<"VERIFY_RESULT:", "True">>>>}

\* A script: whether its top level runs through, whether it defines verify,
\* whether verify throws, what verify returns and what the script prints
Scripts ==
    [loads : BOOLEAN, defines_verify : BOOLEAN, throws : BOOLEAN,
     returned : ReturnValues, printed : PrintedLines]

\* Result<bool, RuntimeError>: Ok(value), or Err of the named kind
RuntimeResult(ok, value, error) == [ok |-> ok, value |-> value, error |-> error]

\* PythonRuntime::execute_subprocess: the wrapper runs the script, prints
\* VERIFY_RESULT: and str(bool(result)), and the parent parses standard output
execute_subprocess(script, timed_out) ==
    LET \* stdout.lines().find(|l| l.starts_with(prefix))
        find_line(lines, prefix) ==
            LET hits == {i \in 1..Len(lines) : lines[i][1] = prefix}
            IN IF hits = {} THEN None
               ELSE Some(lines[CHOOSE i \in hits : \A j \in hits : i <= j])
        value == script.returned
        \* Python's bool(): False, 0, "", None and empty containers are false
        truthy == CASE value[1] = "bool" -> value[2]
                    [] value[1] = "int" -> value[2] # 0
                    [] value[1] = "str" -> value[2] # ""
                    [] value[1] = "none" -> FALSE
                    [] OTHER -> Len(value[2]) > 0
        completed == script.loads /\ script.defines_verify /\ ~script.throws
        stdout ==
            IF ~script.loads THEN <<>>
            ELSE IF ~script.defines_verify
            THEN script.printed \o <<<<"VERIFY_ERROR:", "verify function not found">>>>
            ELSE IF script.throws THEN script.printed
            ELSE script.printed
                    \o <<<<"VERIFY_RESULT:", IF truthy THEN "True" ELSE "False">>>>
        result_line == find_line(stdout, "VERIFY_RESULT:")
        error_line == find_line(stdout, "VERIFY_ERROR:")
    IN IF timed_out THEN RuntimeResult(FALSE, FALSE, "Timeout")
       ELSE IF result_line # None THEN RuntimeResult(TRUE, result_line[1][2] = "True", "")
       ELSE IF error_line # None THEN RuntimeResult(FALSE, FALSE, "FunctionNotFound")
       ELSE IF ~completed THEN RuntimeResult(FALSE, FALSE, "ExecutionFailed")
       ELSE RuntimeResult(FALSE, FALSE, "ExecutionFailed")

\* JavaScriptRuntime::execute_sandboxed
execute_sandboxed(script, timed_out) ==
    IF ~script.loads THEN RuntimeResult(FALSE, FALSE, "ExecutionFailed")
    ELSE IF ~script.defines_verify \/ script.throws THEN RuntimeResult(FALSE, FALSE, "ExecutionFailed")
    ELSE IF script.returned[1] # "bool" THEN RuntimeResult(FALSE, FALSE, "ExecutionFailed")
    ELSE IF timed_out THEN RuntimeResult(FALSE, FALSE, "Timeout")
    ELSE RuntimeResult(TRUE, script.returned[2], "")

\* <PythonRuntime as VerificationRuntime>::execute
ExecutePython ==
    /\ \E script \in Scripts, timed_out \in BOOLEAN :
          rt_ret' = [op |-> "execute", runtime |-> "python", script |-> script,
                     timed_out |-> timed_out,
                     result |-> execute_subprocess(script, timed_out)]
    /\ UNCHANGED <<now, coreVars, nonRuntimeVars>>

\* <JavaScriptRuntime as VerificationRuntime>::execute
ExecuteJavaScript ==
    /\ \E script \in Scripts, timed_out \in BOOLEAN :
          rt_ret' = [op |-> "execute", runtime |-> "javascript", script |-> script,
                     timed_out |-> timed_out,
                     result |-> execute_sandboxed(script, timed_out)]
    /\ UNCHANGED <<now, coreVars, nonRuntimeVars>>

RuntimeNext == ExecutePython \/ ExecuteJavaScript

\* ------------------------------------------------------------------------
\* Safety review consensus (types/review.rs)
\* ------------------------------------------------------------------------
MaxVotes == 6

\* SafetyVerdict
SafetyVerdicts == {"Safe", "Unsafe", "Uncertain"}

\* The revealed votes of a review, by verdict, in the order they were cast
VoteSets == UNION {[1..n -> SafetyVerdicts] : n \in 0..MaxVotes}

\* calculate_decision with the safe thresholds tested before the unsafe ones
calculate_decision_safe_first(total, safe, unsafe_count) ==
    IF total = 0 THEN "InsufficientVotes"
    ELSE IF 3 * safe >= 2 * total THEN "ApprovedStrong"
    ELSE IF 2 * safe >= total THEN "ApprovedWeak"
    ELSE IF 3 * unsafe_count >= 2 * total THEN "RejectedStrong"
    ELSE IF 2 * unsafe_count >= total THEN "RejectedWeak"
    ELSE "NoConsensus"

\* SafetyConsensus::calculate_decision; count / total >= 2.0 / 3.0 in f64 is
\* 3 * count >= 2 * total, since both quotients round the same rational
calculate_decision(total, safe, unsafe_count) ==
    IF total = 0 THEN "InsufficientVotes"
    ELSE IF 3 * unsafe_count >= 2 * total THEN "RejectedStrong"
    ELSE IF 2 * unsafe_count >= total THEN "RejectedWeak"
    ELSE IF 3 * safe >= 2 * total THEN "ApprovedStrong"
    ELSE IF 2 * safe >= total THEN "ApprovedWeak"
    ELSE "NoConsensus"

\* SafetyConsensus::from_votes (avg_confidence enters no decision and is left out)
from_votes(votes) ==
    LET count(verdict) == Cardinality({i \in 1..Len(votes) : votes[i] = verdict})
    IN [total_reviewers |-> Len(votes),
        safe_votes |-> count("Safe"),
        unsafe_votes |-> count("Unsafe"),
        uncertain_votes |-> count("Uncertain"),
        decision |-> calculate_decision(Len(votes), count("Safe"), count("Unsafe")),
        votes |-> votes]

\* SafetyConsensusEngine::calculate_consensus
CalculateConsensus ==
    /\ \E votes \in VoteSets :
          sv_ret' = [op |-> "from_votes", result |-> from_votes(votes)]
    /\ UNCHANGED <<now, coreVars, nonSafetyVars>>

\* ------------------------------------------------------------------------
\* Specifications
\* ------------------------------------------------------------------------
\* ------------------------------------------------------------------------
\* One HoneyPotDetector and one HoneyPotGenerator shared between threads
\* (verifier/honey_pot.rs). Every acquisition of one of the three RwLocks
\* is one step; a call takes effect where it is appended to hp_log.
\* ------------------------------------------------------------------------
MaxThreadOps == 3

Threads == {"t1", "t2"}

Miners == {"k1", "k2"}

HoneyPotIds ==
    LET all == {solution.id : solution \in SolverSolutions}
        first == CHOOSE id \in all : TRUE
    IN {first, CHOOSE id \in all \ {first} : TRUE}

ThreadIdle == [pc |-> "idle", arg |-> <<>>, began |-> 0]

ThreadInit ==
    /\ hp_threads = [t \in Threads |-> ThreadIdle]
    /\ hp_log = <<>>

threadFrame == <<now, chainVars, vb_ret, producerVars, injected, pv_ret, schellingVars,
                 hd_ret, nonThreadVars>>

\* A thread may begin a call: it is in no call, and the calls begun so far
\* stay within the bound
CanCall(t) ==
    /\ hp_threads[t].pc = "idle"
    /\ Len(hp_log) + Cardinality({u \in Threads : hp_threads[u].pc # "idle"}) < MaxThreadOps

\* A call of thread t that began when `began` calls had taken effect takes effect now
Logged(t, op, arg, ret, began) ==
    hp_log' = Append(hp_log, [op |-> op, thread |-> t, arg |-> arg, ret |-> ret,
                              began |-> began])

\* Mutant of is_honey_pot: every id is taken for a honey pot
is_honey_pot_always(pots, solution_id) == TRUE

\* HoneyPotDetector::is_honey_pot, HoneyPotGenerator::is_honey_pot: contains
\* on the set, under its read lock
is_honey_pot(pots, solution_id) == solution_id \in pots

\* HoneyPotDetector::register: insert under known_honey_pots.write()
ThreadRegister(t) ==
    /\ CanCall(t)
    /\ \E solution_id \in HoneyPotIds :
          /\ known_honey_pots' = known_honey_pots \cup {solution_id}
          /\ Logged(t, "register", solution_id, "unit", Len(hp_log))
    /\ UNCHANGED <<hp_threads, offenders, generated_ids, threadFrame>>

\* HoneyPotDetector::is_honey_pot called by a thread
ThreadIsHoneyPot(t) ==
    /\ CanCall(t)
    /\ \E solution_id \in HoneyPotIds :
          Logged(t, "is_honey_pot", solution_id,
                 is_honey_pot(known_honey_pots, solution_id), Len(hp_log))
    /\ UNCHANGED <<hp_threads, known_honey_pots, offenders, generated_ids, threadFrame>>

\* HoneyPotDetector::record_offender, first half: is_honey_pot takes and
\* releases the read lock of known_honey_pots; on false the call returns
ThreadRecordOffenderCheck(t) ==
    /\ CanCall(t)
    /\ \E miner \in Miners, solution_id \in HoneyPotIds :
          IF is_honey_pot(known_honey_pots, solution_id)
          THEN /\ hp_threads' = [hp_threads EXCEPT ![t] =
                                    [pc |-> "record_offender", arg |-> <<miner, solution_id>>,
                                     began |-> Len(hp_log)]]
               /\ UNCHANGED hp_log
          ELSE /\ Logged(t, "record_offender", <<miner, solution_id>>, "unit", Len(hp_log))
               /\ UNCHANGED hp_threads
    /\ UNCHANGED <<known_honey_pots, offenders, generated_ids, threadFrame>>

\* HoneyPotDetector::record_offender, second half: insert under
\* offenders.write()
ThreadRecordOffenderInsert(t) ==
    /\ hp_threads[t].pc = "record_offender"
    /\ offenders' = offenders \cup {hp_threads[t].arg[1]}
    /\ Logged(t, "record_offender", hp_threads[t].arg, "unit", hp_threads[t].began)
    /\ hp_threads' = [hp_threads EXCEPT ![t] = ThreadIdle]
    /\ UNCHANGED <<known_honey_pots, generated_ids, threadFrame>>

\* HoneyPotDetector::is_offender
ThreadIsOffender(t) ==
    /\ CanCall(t)
    /\ \E miner \in Miners :
          Logged(t, "is_offender", miner, miner \in offenders, Len(hp_log))
    /\ UNCHANGED <<hp_threads, known_honey_pots, offenders, generated_ids, threadFrame>>

\* HoneyPotDetector::get_offenders: the offenders copied under the read lock
\* (the order of the Vec is that of the HashSet's iterator and is left out)
ThreadGetOffenders(t) ==
    /\ CanCall(t)
    /\ Logged(t, "get_offenders", <<>>, offenders, Len(hp_log))
    /\ UNCHANGED <<hp_threads, known_honey_pots, offenders, generated_ids, threadFrame>>

\* HoneyPotDetector::clear_offender: remove under offenders.write()
ThreadClearOffender(t) ==
    /\ CanCall(t)
    /\ \E miner \in Miners :
          /\ offenders' = offenders \ {miner}
          /\ Logged(t, "clear_offender", miner, "unit", Len(hp_log))
    /\ UNCHANGED <<hp_threads, known_honey_pots, generated_ids, threadFrame>>

\* HoneyPotGenerator::generate: the solution is built outside the lock, its
\* id inserted under generated_ids.write()
ThreadGenerate(t) ==
    /\ CanCall(t)
    /\ \E job \in Jobs, fake_solver \in Miners, random_byte \in Bytes :
          LET solution == create_honey_pot(job.id, fake_solver,
                                           generate_fake_output(job, random_byte), now)
          IN /\ generated_ids' = generated_ids \cup {solution.id}
             /\ Logged(t, "generate", <<job.id, fake_solver, random_byte>>, solution.id,
                       Len(hp_log))
    /\ UNCHANGED <<hp_threads, known_honey_pots, offenders, threadFrame>>

\* HoneyPotGenerator::is_honey_pot
ThreadGeneratorIsHoneyPot(t) ==
    /\ CanCall(t)
    /\ \E solution_id \in generated_ids \cup HoneyPotIds :
          Logged(t, "generator_is_honey_pot", solution_id,
                 is_honey_pot(generated_ids, solution_id), Len(hp_log))
    /\ UNCHANGED <<hp_threads, known_honey_pots, offenders, generated_ids, threadFrame>>

\* HoneyPotGenerator::cleanup: retain under generated_ids.write()
ThreadCleanup(t) ==
    /\ CanCall(t)
    /\ \E keep_ids \in SUBSET generated_ids :
          /\ generated_ids' = {id \in generated_ids : id \in keep_ids}
          /\ Logged(t, "cleanup", keep_ids, "unit", Len(hp_log))
    /\ UNCHANGED <<hp_threads, known_honey_pots, offenders, threadFrame>>

ThreadNext ==
    \E t \in Threads :
        \/ ThreadRegister(t)
        \/ ThreadIsHoneyPot(t)
        \/ ThreadRecordOffenderCheck(t)
        \/ ThreadRecordOffenderInsert(t)
        \/ ThreadIsOffender(t)
        \/ ThreadGetOffenders(t)
        \/ ThreadClearOffender(t)
        \/ ThreadGenerate(t)
        \/ ThreadGeneratorIsHoneyPot(t)
        \/ ThreadCleanup(t)

\* ------------------------------------------------------------------------
\* SafetyReviewManager (safety/mod.rs) and ReviewerReputation
\* (types/review.rs). The f64 fields of a reputation are kept in millionths;
\* the request of a session enters no handler's decision and is left out.
\* ------------------------------------------------------------------------
MaxReviewCalls == 6

MaxReviewTime == 30

\* 300_000 ms and 600_000 ms, in ticks
commit_window_ms == 10

reveal_window_ms == 20

\* 1.0 in millionths
one_f64 == 1000000

CodeHashes == {"c1"}

AvailableReviewers == {<<"k1", "k2", "k3">>, <<"k1">>}

min_reviewers == 2

\* SafetyVerdict::to_score as u8
to_score(verdict) ==
    CASE verdict = "Safe" -> 1 [] verdict = "Unsafe" -> 255 [] verdict = "Uncertain" -> 0

\* SafetyReviewVote::commitment_hash (one confidence, one nonce)
commitment_hash(vote) == <<"h", vote.code_hash, to_score(vote.verdict), vote.nonce>>

ReviewVotes ==
    [code_hash : CodeHashes, verdict : SafetyVerdicts, reviewer : PublicKeys, nonce : {0}]

ReviewCommits ==
    {[vote_hash |-> commitment_hash(vote), reviewer |-> reviewer] :
        vote \in ReviewVotes, reviewer \in PublicKeys}

ReviewInit ==
    /\ sessions = <<>>
    /\ reputations = <<>>
    /\ rv_ret = [op |-> "new"]
    /\ rv_calls = 0

\* ReviewerReputation::new
ReviewerReputation_new ==
    [total_reviews |-> 0, consensus_agreements |-> 0, outlier_count |-> 0,
     penalty_multiplier |-> one_f64, penalty_blocks_remaining |-> 0,
     accuracy_ema |-> one_f64 \div 2]

\* SafetyConsensus::outlier_fraction, as <<numerator, denominator>>
outlier_fraction(consensus) ==
    IF consensus.total_reviewers = 0 THEN <<0, 1>>
    ELSE IF consensus.decision \in {"NoConsensus", "InsufficientVotes"} THEN <<0, 1>>
    ELSE LET majority_votes ==
                 IF consensus.decision \in {"ApprovedStrong", "ApprovedWeak"}
                 THEN consensus.safe_votes
                 ELSE consensus.unsafe_votes
             minority_votes ==
                 consensus.total_reviewers - majority_votes - consensus.uncertain_votes
         IN <<minority_votes, consensus.total_reviewers>>

\* ReviewerReputation::update_after_review; n / d < 1.0 / 6.0 in f64 is
\* 6 * n < d, since both quotients round the same rational
update_after_review(reputation, was_in_majority, fraction) ==
    LET counted == [reputation EXCEPT
                       !.total_reviews = @ + 1,
                       !.consensus_agreements = IF was_in_majority THEN @ + 1 ELSE @]
        flagged == IF 6 * fraction[1] < fraction[2]
                   THEN [counted EXCEPT !.outlier_count = @ + 1,
                                        !.penalty_blocks_remaining = 10,
                                        !.penalty_multiplier = (@ * 95) \div 100]
                   ELSE counted
        averaged == [flagged EXCEPT
                        !.accuracy_ema =
                            ((IF was_in_majority THEN one_f64 ELSE 0) + 9 * @) \div 10]
        left == averaged.penalty_blocks_remaining - 1
        scaled == (averaged.penalty_multiplier * 105) \div 100
    IN IF was_in_majority /\ averaged.penalty_blocks_remaining > 0
       THEN [averaged EXCEPT
                !.penalty_blocks_remaining = left,
                !.penalty_multiplier =
                    IF left = 0 THEN (IF scaled < one_f64 THEN scaled ELSE one_f64) ELSE @]
       ELSE averaged

\* SafetyReviewManager::select_reviewers: the available reviewers in a stable
\* sort by descending trust score, the first `count` of them
select_reviewers(reps, available, count) ==
    LET trust_score(pk) ==
            IF pk \notin DOMAIN reps \/ reps[pk].total_reviews < 10
            THEN one_f64 \div 2
            ELSE LET r == reps[pk]
                     agreement_ratio == (r.consensus_agreements * one_f64) \div r.total_reviews
                     outlier_ratio == (r.outlier_count * one_f64) \div r.total_reviews
                     outlier_penalty ==
                         one_f64 - (IF outlier_ratio < one_f64 \div 2 THEN outlier_ratio
                                    ELSE one_f64 \div 2)
                 IN (4 * agreement_ratio + 3 * outlier_penalty + 3 * r.accuracy_ema) \div 10
        before(i, j) ==
            \/ trust_score(available[i]) > trust_score(available[j])
            \/ trust_score(available[i]) = trust_score(available[j]) /\ i < j
        position(i) == 1 + Cardinality({j \in 1..Len(available) : before(j, i)})
        sorted == [k \in 1..Len(available) |->
                      available[CHOOSE i \in 1..Len(available) : position(i) = k]]
    IN IF Len(available) < count
       THEN [result |-> "Not enough available reviewers", selected |-> <<>>]
       ELSE [result |-> "Ok", selected |-> SubSeq(sorted, 1, count)]

\* Mutant of submit_commit: a second commit of the same reviewer is taken
submit_commit_twice(session, commit, t) ==
    IF session.phase # "Commit" THEN [result |-> "Not in commit phase", session |-> session]
    ELSE IF t > session.commit_deadline
    THEN [result |-> "Commit phase expired", session |-> [session EXCEPT !.phase = "Reveal"]]
    ELSE IF \A i \in 1..Len(session.selected_reviewers) :
               session.selected_reviewers[i] # commit.reviewer
    THEN [result |-> "Reviewer not selected for this session", session |-> session]
    ELSE [result |-> "Ok", session |-> [session EXCEPT !.commits = Append(@, commit)]]

\* SafetyReviewManager::submit_commit on the session found for the code hash
submit_commit(session, commit, t) ==
    IF session.phase # "Commit" THEN [result |-> "Not in commit phase", session |-> session]
    ELSE IF t > session.commit_deadline
    THEN [result |-> "Commit phase expired", session |-> [session EXCEPT !.phase = "Reveal"]]
    ELSE IF \A i \in 1..Len(session.selected_reviewers) :
               session.selected_reviewers[i] # commit.reviewer
    THEN [result |-> "Reviewer not selected for this session", session |-> session]
    ELSE IF \E i \in 1..Len(session.commits) : session.commits[i].reviewer = commit.reviewer
    THEN [result |-> "Reviewer already submitted commit", session |-> session]
    ELSE [result |-> "Ok", session |-> [session EXCEPT !.commits = Append(@, commit)]]

\* SafetyReviewManager::finalize_review on the session found for the code
\* hash (the payouts are computed and dropped)
finalize_review(session, reps) ==
    IF session.votes = <<>>
    THEN [result |-> "No votes received", session |-> [session EXCEPT !.phase = "Expired"],
          reputations |-> reps]
    ELSE LET consensus == from_votes([i \in 1..Len(session.votes) |-> session.votes[i].verdict])
             was_in_majority(vote) ==
                 IF consensus.decision \in {"ApprovedStrong", "ApprovedWeak"}
                 THEN vote.verdict = "Safe"
                 ELSE IF consensus.decision \in {"RejectedStrong", "RejectedWeak"}
                 THEN vote.verdict = "Unsafe"
                 ELSE TRUE
             RECURSIVE updated(_)
             updated(n) ==
                 IF n = 0 THEN reps
                 ELSE LET sofar == updated(n - 1)
                          vote == session.votes[n]
                          reputation == IF vote.reviewer \in DOMAIN sofar
                                        THEN sofar[vote.reviewer]
                                        ELSE ReviewerReputation_new
                          after == update_after_review(reputation, was_in_majority(vote),
                                                       outlier_fraction(consensus))
                      IN [pk \in DOMAIN sofar \cup {vote.reviewer} |->
                             IF pk = vote.reviewer THEN after ELSE sofar[pk]]
         IN [result |-> "Ok", session |-> [session EXCEPT !.phase = "Complete"],
             reputations |-> updated(Len(session.votes))]

\* SafetyReviewManager::reveal_vote on the session found for the code hash
reveal_vote(found, reps, vote, t) ==
    LET session == IF found.phase = "Commit" /\ t > found.commit_deadline
                   THEN [found EXCEPT !.phase = "Reveal"]
                   ELSE found
        matching == {i \in 1..Len(session.commits) : session.commits[i].reviewer = vote.reviewer}
        commit == session.commits[CHOOSE i \in matching : \A j \in matching : i <= j]
        pushed == [session EXCEPT !.votes = Append(@, vote)]
    IN IF session.phase # "Reveal"
       THEN [result |-> "Not in reveal phase", session |-> session, reputations |-> reps]
       ELSE IF t > session.reveal_deadline THEN finalize_review(session, reps)
       ELSE IF matching = {}
       THEN [result |-> "No commit found for this reviewer", session |-> session,
             reputations |-> reps]
       ELSE IF ~(commitment_hash(vote) = commit.vote_hash /\ vote.reviewer = commit.reviewer)
       THEN [result |-> "Vote does not match commitment", session |-> session,
             reputations |-> reps]
       ELSE IF \E i \in 1..Len(session.votes) : session.votes[i].reviewer = vote.reviewer
       THEN [result |-> "Reviewer already revealed vote", session |-> session,
             reputations |-> reps]
       ELSE IF Len(pushed.votes) = Len(pushed.commits) THEN finalize_review(pushed, reps)
       ELSE [result |-> "Ok", session |-> pushed, reputations |-> reps]

\* SafetyReviewManager::start_review
StartReview ==
    /\ rv_calls < MaxReviewCalls
    /\ rv_calls' = rv_calls + 1
    /\ \E code_hash \in CodeHashes, available \in AvailableReviewers :
          LET r == select_reviewers(reputations, available, min_reviewers)
              session == [selected_reviewers |-> r.selected, commits |-> <<>>, votes |-> <<>>,
                          phase |-> "Commit", commit_deadline |-> now + commit_window_ms,
                          reveal_deadline |-> now + reveal_window_ms]
          IN /\ sessions' = IF r.result = "Ok"
                            THEN [h \in DOMAIN sessions \cup {code_hash} |->
                                     IF h = code_hash THEN session ELSE sessions[h]]
                            ELSE sessions
             /\ rv_ret' = [op |-> "start_review", code_hash |-> code_hash, arg |-> available,
                           result |-> r.result]
    /\ UNCHANGED <<now, coreVars, nonReviewVars, reputations>>

\* SafetyReviewManager::submit_commit
ReviewSubmitCommit ==
    /\ rv_calls < MaxReviewCalls
    /\ rv_calls' = rv_calls + 1
    /\ \E code_hash \in CodeHashes, commit \in ReviewCommits :
          IF code_hash \notin DOMAIN sessions
          THEN /\ rv_ret' = [op |-> "submit_commit", code_hash |-> code_hash, arg |-> commit,
                             result |-> "Review session not found"]
               /\ UNCHANGED sessions
          ELSE LET r == submit_commit(sessions[code_hash], commit, now)
               IN /\ sessions' = [sessions EXCEPT ![code_hash] = r.session]
                  /\ rv_ret' = [op |-> "submit_commit", code_hash |-> code_hash,
                                arg |-> commit, result |-> r.result]
    /\ UNCHANGED <<now, coreVars, nonReviewVars, reputations>>

\* SafetyReviewManager::reveal_vote
ReviewRevealVote ==
    /\ rv_calls < MaxReviewCalls
    /\ rv_calls' = rv_calls + 1
    /\ \E code_hash \in CodeHashes, vote \in ReviewVotes :
          IF code_hash \notin DOMAIN sessions
          THEN /\ rv_ret' = [op |-> "reveal_vote", code_hash |-> code_hash, arg |-> vote,
                             result |-> "Review session not found"]
               /\ UNCHANGED <<sessions, reputations>>
          ELSE LET r == reveal_vote(sessions[code_hash], reputations, vote, now)
               IN /\ sessions' = [sessions EXCEPT ![code_hash] = r.session]
                  /\ reputations' = r.reputations
                  /\ rv_ret' = [op |-> "reveal_vote", code_hash |-> code_hash, arg |-> vote,
                                result |-> r.result]
    /\ UNCHANGED <<now, coreVars, nonReviewVars>>

\* now_millis moves on by the length of the commit phase
ReviewElapse ==
    /\ now + commit_window_ms <= MaxReviewTime
    /\ now' = now + commit_window_ms
    /\ UNCHANGED <<coreVars, extVars>>

ReviewNext == StartReview \/ ReviewSubmitCommit \/ ReviewRevealVote \/ ReviewElapse

Init ==
    /\ now = 0
    /\ ChainInit
    /\ vb_ret = [op |-> "new", result |-> "Ok"]
    /\ VerifierInit
    /\ SchellingInit
    /\ StakeInit
    /\ DetectorInit
    /\ MempoolInit
    /\ AccountInit
    /\ TokenInit
    /\ rt_ret = [op |-> "new"]
    /\ sv_ret = [op |-> "new"]
    /\ ThreadInit
    /\ ReviewInit

SpecChain == Init /\ [][ChainNext]_vars

SpecValidate == Init /\ [][ValidateNext]_vars

SpecVerifier == Init /\ [][VerifierNext]_vars

SpecProducer == Init /\ [][ProducerNext]_vars

SpecScript == Init /\ [][ScriptNext]_vars

SpecSchelling == Init /\ [][SchellingNext]_vars

SpecStake == Init /\ [][StakeNext]_vars

SpecDetector == Init /\ [][DetectorNext]_vars

SpecMempool == Init /\ [][MempoolNext]_vars

SpecCleanup == Init /\ [][CleanupNext]_vars

SpecAccount == Init /\ [][AccountNext]_vars

SpecToken == Init /\ [][TokenNext]_vars

SpecRuntime == Init /\ [][RuntimeNext]_vars

SpecSafety == Init /\ [][CalculateConsensus]_vars

SpecNode == Init /\ [][NodeNext]_vars

SpecThreads == Init /\ [][ThreadNext]_vars

SpecReview == Init /\ [][ReviewNext]_vars

\* The least integer t with t >= 0.66 * n
Ceil66(n) == CHOOSE t \in 0..n : 100 * t >= 66 * n /\ (t = 0 \/ 100 * (t - 1) < 66 * n)

\* The last validate_block call passed the parent, integrity and
\* attestation-signature checks
PassedStructuralChecks ==
    /\ vb_ret.op = "validate_block"
    /\ IF vb_ret.parent # None
       THEN /\ vb_ret.block.header.parent_hash = vb_ret.parent[1].hash
            /\ vb_ret.block.header.height = vb_ret.parent[1].header.height + 1
       ELSE vb_ret.block.header.height = 0
    /\ verify_integrity(vb_ret.block) = "Ok"

\* C1 as stated: for every active_verifier_count n >= 0, a block passing the
\* parent, integrity and signature checks is accepted iff
\* |attestations| >= ceil(0.66 * n), and is refused with
\* InsufficientConsensus below that.
C1_ThresholdForEveryCount ==
    PassedStructuralChecks =>
        LET enough == Len(vb_ret.block.attestations) >= Ceil66(vb_ret.active_verifiers)
        IN /\ vb_ret.result = "Ok" <=> enough
           /\ ~enough => vb_ret.result = "InsufficientConsensus"

\* C1 amended: the equivalence holds for every n >= 1; with n = 0 the block
\* is refused with InsufficientConsensus whatever it carries.
C1_ThresholdForPositiveCount ==
    PassedStructuralChecks =>
        LET enough == Len(vb_ret.block.attestations) >= Ceil66(vb_ret.active_verifiers)
        IN IF vb_ret.active_verifiers >= 1
           THEN /\ vb_ret.result = "Ok" <=> enough
                /\ ~enough => vb_ret.result = "InsufficientConsensus"
           ELSE vb_ret.result = "InsufficientConsensus"

\* C1 witness: a block with exactly ceil(0.66 * 3) = 2 attestations is
\* accepted for three active verifiers.
C1_Witness ==
    /\ PassedStructuralChecks
    /\ vb_ret.active_verifiers = 3
    /\ Len(vb_ret.block.attestations) = 2
    /\ vb_ret.result = "Ok"

\* C2: an accepted block has attestations from at least 66% of the active
\* verifiers, counting each verifier once, only active verifiers, and only
\* attestations that refer to this block's hash.
C2_DistinctActiveAgreement ==
    (vb_ret.op = "validate_block" /\ vb_ret.result = "Ok") =>
        LET atts == vb_ret.block.attestations
            agreeing == { atts[i].verifier : i \in
                            { j \in 1..Len(atts) :
                                /\ atts[j].verifier \in vb_ret.active
                                /\ atts[j].block_hash = vb_ret.block.hash } }
        IN 100 * Cardinality(agreeing) >= 66 * vb_ret.active_verifiers

\* C3: every successful apply_block increases height by exactly 1 and moves
\* the tip to the applied block, a rejected apply_block leaves height, tip,
\* blocks and height_index unchanged, and no stored block or height_index
\* entry is overwritten or removed by a later apply_block.
C3_MonotoneHeightNoRewrite ==
    [][cs_ret'.op = "apply_block" =>
        /\ cs_ret'.result = "Ok" =>
              height' = height + 1 /\ tip' = Some(cs_ret'.block.hash)
        /\ cs_ret'.result # "Ok" =>
              UNCHANGED <<blocks, height_index, tip, height>>
        /\ \A k \in DOMAIN blocks :
              k \in DOMAIN blocks' /\ blocks'[k] = blocks[k]
        /\ \A h \in DOMAIN height_index :
              h \in DOMAIN height_index' /\ height_index'[h] = height_index[h]
      ]_vars

\* C4: apply_block accepts b on a non-empty chain iff b.parent_hash is the
\* hash of the tip block and b.header.height is the tip block's height + 1,
\* on an empty chain iff b.header.height = 0; after a successful apply
\* height() is the tip block's header.height and get_block_at_height(h) is
\* the block whose header.height is h.
C4_AcceptIffFollowsTip ==
    [][cs_ret'.op = "apply_block" =>
        LET b == cs_ret'.block IN
        /\ cs_ret'.result = "Ok" <=>
              IF tip # None
              THEN /\ b.header.parent_hash = blocks[tip[1]].hash
                   /\ b.header.height = blocks[tip[1]].header.height + 1
              ELSE b.header.height = 0
        /\ cs_ret'.result = "Ok" =>
              /\ height' = blocks'[tip'[1]].header.height
              /\ \A h \in DOMAIN height_index' :
                    blocks'[height_index'[h]].header.height = h
      ]_vars

\* ------------------------------------------------------------------------
\* Claims about solution verification
\* ------------------------------------------------------------------------
\* The last call was verify_solution on a job and a solution of that job
VerifiedMatching ==
    /\ pv_ret.op = "process_solution"
    /\ pv_ret.solution.job_id = pv_ret.job.id

\* C5: for a HashMatch{h} job, every verify_solution call with
\* solution.job_id = job.id returns a result with passed = true iff
\* H(solution.output) = h, whatever calls came before it (answers out of the
\* verification cache included).
C5_HashMatchIffOutputHashes ==
    (VerifiedMatching /\ pv_ret.job.verification.kind = "HashMatch") =>
        /\ pv_ret.ret.tag = "Ok"
        /\ pv_ret.ret.result.passed <=>
              (hash_data(pv_ret.solution.output) = pv_ret.job.verification.expected_hash)

\* The ids in the producer's own attestation of a produced block
AttestedSolutions(block) ==
    UNION { {a.verified_solutions[i] : i \in 1..Len(a.verified_solutions)} :
            a \in {block.attestations[j] : j \in 1..Len(block.attestations)} }

\* C6: a honey pot generated for a job with a deterministic verification spec
\* is verified with passed = false, is never in the pending buffer and never
\* in the producer's own attestation.
C6_HoneyPotNeverPasses ==
    /\ (VerifiedMatching /\ pv_ret.solution \in injected
           /\ pv_ret.job.verification.kind # "SchellingPoint") =>
          (pv_ret.ret.tag = "Ok" /\ ~pv_ret.ret.result.passed)
    /\ \A i \in 1..Len(pending_verifications) :
          pending_verifications[i].solution_id \notin generated_ids
    /\ (pv_ret.op = "try_produce_block" /\ pv_ret.block # None) =>
          AttestedSolutions(pv_ret.block[1]) \cap generated_ids = {}

\* ------------------------------------------------------------------------
\* Claims about Schelling-point voting
\* ------------------------------------------------------------------------
\* The step is a call of the named SchellingConsensus method
SchellingCall(op) == sc_ret'.op = op /\ now' = now

\* C7: a round finalized in phase Complete with fewer than min_voters
\* revealed votes is not accepted and has no deviants.
C7_NoQuorumNoOutcome ==
    \A id \in DOMAIN completed_rounds :
        ~has_quorum(completed_rounds[id].round, min_voters) =>
            /\ ~completed_rounds[id].outcome.accepted
            /\ completed_rounds[id].outcome.deviants = {}

\* One legal phase step of a round, taken at the current time
LegalPhaseStep(round, phase) ==
    \/ round.phase = "Commit" /\ phase = "Reveal" /\ now >= round.reveal_start
    \/ round.phase = "Reveal" /\ phase = "Complete" /\ now >= round.end_time

\* C8: the phase of a round changes only in tick, by one step
\* Commit -> Reveal (only when now >= reveal_start) or Reveal -> Complete
\* (only when now >= end_time); no other call changes it, it never moves
\* backwards and never goes from Commit to Complete in one tick.
C8_PhaseOnlyAdvancesOnTick ==
    [][\A id \in DOMAIN active_rounds \cap DOMAIN active_rounds' :
          active_rounds'[id].phase # active_rounds[id].phase =>
             /\ SchellingCall("tick")
             /\ LegalPhaseStep(active_rounds[id], active_rounds'[id].phase)]_vars

\* C8 witness: a tick taken at or after end_time has moved a round out of
\* Commit, and the round is in Reveal, not Complete.
C8_Witness ==
    /\ sc_ret.op = "tick"
    /\ \E id \in DOMAIN active_rounds :
          /\ active_rounds[id].phase = "Reveal"
          /\ now >= active_rounds[id].end_time

\* C9: submit_commitment on a round outside phase Commit fails with
\* WrongPhase; in phase Commit a voter that already has an entry gets
\* DuplicateVote and the round is left as it was; an accepted commitment is
\* stored with vote, nonce and quality_score withheld; and a round in phase
\* Commit never has a revealed vote.
C9_CommitOnlyInCommitPhase ==
    /\ [](\A id \in DOMAIN active_rounds :
             active_rounds[id].phase = "Commit" => reveal_count(active_rounds[id]) = 0)
    /\ [][(SchellingCall("submit_commitment") /\ sc_ret'.solution_id \in DOMAIN active_rounds) =>
             LET id == sc_ret'.solution_id
                 round == active_rounds[id]
                 vote == sc_ret'.vote
             IN /\ sc_ret'.result = "Ok" => round.phase = "Commit"
                /\ round.phase # "Commit" =>
                      sc_ret'.result = "WrongPhase" /\ UNCHANGED active_rounds
                /\ (round.phase = "Commit" /\ vote.voter \in DOMAIN round.votes) =>
                      sc_ret'.result = "DuplicateVote" /\ UNCHANGED active_rounds
                /\ sc_ret'.result = "Ok" =>
                      LET stored == active_rounds'[id].votes[vote.voter]
                      IN /\ stored.commitment = vote.commitment
                         /\ stored.vote = None
                         /\ stored.nonce = None
                         /\ stored.quality_score = None]_vars

\* C9 witness: a second commitment of a voter was refused with DuplicateVote
\* while the round is in phase Commit and holds the first one.
C9_Witness ==
    /\ sc_ret.op = "submit_commitment"
    /\ sc_ret.result = "DuplicateVote"
    /\ \E id \in DOMAIN active_rounds :
          /\ active_rounds[id].phase = "Commit"
          /\ sc_ret.vote.voter \in DOMAIN active_rounds[id].votes
          /\ active_rounds[id].votes[sc_ret.vote.voter].commitment # sc_ret.vote.commitment

\* C10: reveal_vote on a round in phase Reveal returns Ok iff the voter has
\* a stored commitment equal to the one recomputed from the revealed
\* (vote, quality_score, nonce); otherwise it returns VoterNotFound (no
\* entry) or CommitmentMismatch and leaves the rounds as they were; on a
\* round in another phase it returns WrongPhase.
C10_RevealIffCommitmentOpens ==
    [][(SchellingCall("reveal_vote") /\ sc_ret'.solution_id \in DOMAIN active_rounds) =>
          LET round == active_rounds[sc_ret'.solution_id]
              known == sc_ret'.voter \in DOMAIN round.votes
              opens == /\ known
                       /\ round.votes[sc_ret'.voter].commitment =
                             Commitment_create(vote_data(sc_ret'.vote, sc_ret'.quality_score,
                                                         sc_ret'.nonce), sc_ret'.nonce)
          IN IF round.phase # "Reveal"
             THEN sc_ret'.result = "WrongPhase" /\ UNCHANGED <<active_rounds, completed_rounds>>
             ELSE /\ sc_ret'.result = "Ok" <=> opens
                  /\ ~known => sc_ret'.result = "VoterNotFound"
                  /\ (known /\ ~opens) => sc_ret'.result = "CommitmentMismatch"
                  /\ ~opens => UNCHANGED <<active_rounds, completed_rounds>>]_vars

\* C10 witness: in phase Reveal one voter has revealed and another voter's
\* reveal was refused with CommitmentMismatch, its entry still unrevealed.
C10_Witness ==
    /\ sc_ret.op = "reveal_vote"
    /\ sc_ret.result = "CommitmentMismatch"
    /\ \E id \in DOMAIN active_rounds :
          /\ active_rounds[id].phase = "Reveal"
          /\ ~is_revealed(active_rounds[id].votes[sc_ret.voter])
          /\ reveal_count(active_rounds[id]) = 1

\* The voters of a round whose stored vote is revealed as r
Revealed(round, r) == {v \in DOMAIN round.votes : round.votes[v].vote = <<r>>}

\* The sum of the revealed quality scores of a set of voters
RECURSIVE QualitySum(_, _)
QualitySum(round, voters) ==
    IF voters = {} THEN 0
    ELSE LET v == CHOOSE x \in voters : TRUE
         IN round.votes[v].quality_score[1] + QualitySum(round, voters \ {v})

\* C11: in every finalized round the tally counts the revealed votes only;
\* majority is Accept (Reject) exactly when Accept (Reject) votes are strictly
\* more than the other, else there is none; the average quality is the mean
\* over the Accept voters; and the round is accepted iff majority = Accept
\* and that mean is >= quality_threshold.
C11_TallyAndAcceptance ==
    \A id \in DOMAIN completed_rounds :
        LET round == completed_rounds[id].round
            outcome == completed_rounds[id].outcome
            results == outcome.results
            A == Revealed(round, "Accept")
            R == Revealed(round, "Reject")
            Ab == Revealed(round, "Abstain")
        IN /\ results.accept_votes = Cardinality(A)
           /\ results.reject_votes = Cardinality(R)
           /\ results.abstain_votes = Cardinality(Ab)
           /\ results.total_votes = Cardinality(A \cup R \cup Ab)
           /\ results.majority = <<"Accept">> <=> Cardinality(A) > Cardinality(R)
           /\ results.majority = <<"Reject">> <=> Cardinality(R) > Cardinality(A)
           /\ results.majority = <<>> <=> Cardinality(A) = Cardinality(R)
           /\ results.quality_count = Cardinality(A)
           /\ results.quality_sum = QualitySum(round, A)
           /\ outcome.accepted <=>
                 /\ Cardinality(A) > Cardinality(R)
                 /\ QualitySum(round, A) >= quality_threshold * Cardinality(A)

\* C11 witness: a finalized round accepted on two Accept votes of mean
\* quality 72.5 against one Reject vote of quality 60.
C11_Witness ==
    \E id \in DOMAIN completed_rounds :
        LET round == completed_rounds[id].round
        IN /\ completed_rounds[id].outcome.accepted
           /\ Cardinality(Revealed(round, "Accept")) = 2
           /\ Cardinality(Revealed(round, "Reject")) = 1
           /\ QualitySum(round, Revealed(round, "Accept")) = 145

\* C12: the deviants of a finalized round are exactly the voters who
\* revealed Accept or Reject against the majority; without a majority there
\* are no deviants and the round is not accepted.
C12_DeviantsAgainstMajority ==
    \A id \in DOMAIN completed_rounds :
        LET round == completed_rounds[id].round
            outcome == completed_rounds[id].outcome
            A == Revealed(round, "Accept")
            R == Revealed(round, "Reject")
        IN /\ Cardinality(A) > Cardinality(R) => outcome.deviants = R
           /\ Cardinality(R) > Cardinality(A) => outcome.deviants = A
           /\ Cardinality(A) = Cardinality(R) =>
                 outcome.deviants = {} /\ ~outcome.accepted

\* C12 witness: a finalized round with a Reject majority of two votes and
\* the Accept voter as the only deviant.
C12_Witness ==
    \E id \in DOMAIN completed_rounds :
        /\ completed_rounds[id].outcome.results.majority = <<"Reject">>
        /\ completed_rounds[id].outcome.results.reject_votes = 2
        /\ completed_rounds[id].outcome.deviants = {"k2"}

\* The StakeManager call made by this step
StakeCall(op) == st_ret'.op = op /\ stake_calls' = stake_calls + 1

\* C13: the effective stake of every staker is at least zero, and when the
\* last call was a successful slash for a reason that carries 100%
\* (HoneyPotApproval or DoubleSigning), the slashed verifier is inactive and
\* can_verify answers false for it, whatever stake, slash and reward calls
\* came before.
C13_FullSlashDeactivates ==
    /\ \A a \in DOMAIN stakes : effective_stake(stakes[a]) >= 0
    /\ (/\ st_ret.op = "slash"
        /\ st_ret.result.tag = "Ok"
        /\ st_ret.reason \in {"HoneyPotApproval", "DoubleSigning"})
       => /\ slash_percentage(st_ret.reason) = 100
          /\ st_ret.address \in DOMAIN stakes
          /\ ~stakes[st_ret.address].is_active
          /\ ~can_verify(stakes, st_ret.address)

\* C13 witness: a DoubleSigning slash of a staker that had been rewarded and
\* slashed in full before, so that total_slashed exceeds the staked amount.
C13_Witness ==
    /\ st_ret.op = "slash"
    /\ st_ret.result.tag = "Ok"
    /\ st_ret.reason = "DoubleSigning"
    /\ st_ret.address \in DOMAIN stakes
    /\ stakes[st_ret.address].total_rewards > 0
    /\ Len(stakes[st_ret.address].slash_history) = 2
    /\ stakes[st_ret.address].total_slashed > stakes[st_ret.address].amount

\* C14 as stated: complete_unstake succeeds only after a begin_unstake and
\* at or after withdrawable_at; before that time it fails with
\* UnbondingNotComplete{ready_at = withdrawable_at}; without a begin_unstake
\* before it, it fails with NotUnstaking; both failures leave the ledger
\* unchanged; success returns the effective stake and removes the entry; a
\* begin_unstake after an earlier one fails with AlreadyUnstaking.
C14_UnstakeAsStated ==
    [][LET a == st_ret'.address
           r == st_ret'.result
       IN /\ StakeCall("complete_unstake") =>
               /\ r.tag = "Ok" =>
                    /\ a \in unstake_begun
                    /\ now >= stakes[a].withdrawable_at[1]
                    /\ r.value = effective_stake(stakes[a])
                    /\ a \notin DOMAIN stakes'
               /\ (a \in unstake_begun /\ stakes[a].withdrawable_at # None
                   /\ now < stakes[a].withdrawable_at[1]) =>
                    /\ r = StakeErr("UnbondingNotComplete", stakes[a].withdrawable_at[1])
                    /\ UNCHANGED <<stakes, total_staked>>
               /\ a \notin unstake_begun =>
                    /\ r = StakeErr("NotUnstaking", 0)
                    /\ UNCHANGED <<stakes, total_staked>>
          /\ (StakeCall("begin_unstake") /\ a \in unstake_begun) =>
               r = StakeErr("AlreadyUnstaking", 0)]_vars

\* C14 (amended): for an address that has a stake entry, complete_unstake
\* fails with NotUnstaking while withdrawable_at is unset (no begin_unstake
\* since the entry was created or last topped up by stake), fails with
\* UnbondingNotComplete{ready_at = withdrawable_at} before that time, and
\* otherwise returns the effective stake and removes the entry; a failure
\* leaves the ledger unchanged. withdrawable_at is set only by a successful
\* begin_unstake, to the time of that call plus the unbonding period, and a
\* begin_unstake while it is set fails with AlreadyUnstaking. For an address
\* without an entry both calls fail with NotFound.
C14_UnstakeTimeGate ==
    [][LET a == st_ret'.address
           r == st_ret'.result
       IN /\ StakeCall("complete_unstake") =>
               IF a \notin DOMAIN stakes
               THEN r = StakeErr("NotFound", 0) /\ UNCHANGED <<stakes, total_staked>>
               ELSE IF stakes[a].withdrawable_at = None
               THEN r = StakeErr("NotUnstaking", 0) /\ UNCHANGED <<stakes, total_staked>>
               ELSE IF now < stakes[a].withdrawable_at[1]
               THEN /\ r = StakeErr("UnbondingNotComplete", stakes[a].withdrawable_at[1])
                    /\ UNCHANGED <<stakes, total_staked>>
               ELSE /\ a \in unstake_begun
                    /\ r = StakeOk(effective_stake(stakes[a]))
                    /\ a \notin DOMAIN stakes'
          /\ StakeCall("begin_unstake") =>
               IF a \notin DOMAIN stakes
               THEN r = StakeErr("NotFound", 0) /\ UNCHANGED stakes
               ELSE IF stakes[a].withdrawable_at # None
               THEN r = StakeErr("AlreadyUnstaking", 0) /\ UNCHANGED stakes
               ELSE /\ r = StakeOk(0)
                    /\ stakes'[a].withdrawable_at = Some(now + unbonding_period_ms)
          /\ \A b \in DOMAIN stakes \cap DOMAIN stakes' :
               (stakes'[b].withdrawable_at # stakes[b].withdrawable_at) =>
                  \/ StakeCall("begin_unstake") /\ a = b /\ r.tag = "Ok"
                  \/ StakeCall("stake") /\ a = b /\ stakes'[b].withdrawable_at = None]_vars

\* C14 witness: complete_unstake has just succeeded at the very tick that
\* withdrawable_at named for a begin_unstake made at time zero.
C14_Witness ==
    /\ st_ret.op = "complete_unstake"
    /\ st_ret.result = StakeOk(min_stake)
    /\ st_ret.address \notin DOMAIN stakes
    /\ now = unbonding_period_ms

\* C15: record_offender(miner, id) adds the miner to the offenders exactly
\* when id is a registered honey-pot id at the time of the call and leaves
\* the offenders unchanged otherwise; a miner enters the offenders by no
\* other call, and a flagged miner (is_offender true) stays flagged until
\* clear_offender is called for that miner.
C15_OffenderIffHoneyPot ==
    [][/\ hd_ret'.op = "record_offender" =>
            IF hd_ret'.solution_id \in known_honey_pots
            THEN offenders' = offenders \cup {hd_ret'.miner}
            ELSE offenders' = offenders
       /\ \A m \in offenders' \ offenders :
            /\ hd_ret' = [op |-> "record_offender", miner |-> m,
                          solution_id |-> hd_ret'.solution_id]
            /\ hd_ret'.solution_id \in known_honey_pots
       /\ \A m \in offenders \ offenders' :
            hd_ret' = [op |-> "clear_offender", miner |-> m]]_vars

\* C15 witness: a miner is flagged for one registered id while a record
\* against an unregistered id has just left a second miner unflagged.
C15_Witness ==
    /\ hd_ret.op = "record_offender"
    /\ hd_ret.solution_id \notin known_honey_pots
    /\ hd_ret.miner \notin offenders
    /\ offenders # {}

\* C16: every job and every solution stored in the mempool carries a
\* signature that verifies against its requester's, respectively solver's,
\* public key, and every attestation of every block stored in the chain
\* state verifies against its verifier's key.
C16_StoredSignaturesVerify ==
    /\ \A id \in DOMAIN jobs :
          verify(jobs[id].requester, job_signing_bytes(jobs[id]), jobs[id].signature)
    /\ \A id \in DOMAIN solutions :
          verify(solutions[id].solver, solution_signing_bytes(solutions[id]),
                 solutions[id].signature)
    /\ \A h \in DOMAIN blocks :
          \A i \in 1..Len(blocks[h].attestations) :
             attestation_verify_signature(blocks[h].attestations[i])

\* C17: whatever the number n of active verifiers, a block that
\* validate_block accepts carries at least two thirds of n attestations:
\* 3 * |attestations| >= 2 * n.
C17_TwoThirdsOfActive ==
    (vb_ret.op = "validate_block" /\ vb_ret.result = "Ok")
       => 3 * Len(vb_ret.block.attestations) >= 2 * vb_ret.active_verifiers

\* C18: with a parent, validate_block answers InvalidParent when the block's
\* parent_hash is not the parent's hash, and otherwise HeightMismatch with
\* expected = parent.height + 1 and got = block.height when the block's height
\* is not the parent's plus one; without a parent it answers InvalidParent
\* for every height but 0; and these answers are given whatever the block's
\* integrity and attestation count, so that only a block that links to its
\* parent is ever judged on integrity or threshold.
C18_LinkageCheckedFirst ==
    vb_ret.op = "validate_block" =>
       LET block == vb_ret.block
           parent == vb_ret.parent
       IN IF parent # None /\ block.header.parent_hash # parent[1].hash
          THEN vb_ret.result = "InvalidParent"
          ELSE IF parent # None /\ block.header.height # parent[1].header.height + 1
          THEN /\ vb_ret.result = "HeightMismatch"
               /\ vb_ret.mismatch = Some([expected |-> parent[1].header.height + 1,
                                          got |-> block.header.height])
          ELSE IF parent = None /\ block.header.height # 0
          THEN vb_ret.result = "InvalidParent"
          ELSE vb_ret.result \in {"Ok", "VerificationFailed", "InsufficientConsensus"}

\* C18 witness: HeightMismatch{expected = 1, got = 2} for a block whose hash
\* field is not its header's digest and that carries no attestation.
C18_Witness ==
    /\ vb_ret.op = "validate_block"
    /\ vb_ret.result = "HeightMismatch"
    /\ vb_ret.mismatch = Some([expected |-> 1, got |-> 2])
    /\ verify_integrity(vb_ret.block) # "Ok"
    /\ ~has_consensus(vb_ret.block, vb_ret.active_verifiers)

\* The verifier call made by this step
VerifyCall == pv_ret'.op = "process_solution" /\ verify_calls' = verify_calls + 1

\* C19: a verify_solution call whose solution names another job than the one
\* passed in fails with SolutionMismatch and leaves the verification cache
\* and the producer's pending buffer as they were, also when the cache holds
\* a result for that solution id.
C19_MismatchTouchesNothing ==
    [][(VerifyCall /\ pv_ret'.solution.job_id # pv_ret'.job.id) =>
          /\ pv_ret'.ret = [tag |-> "Err", error |-> "SolutionMismatch"]
          /\ UNCHANGED <<verification_cache, pending_verifications>>]_vars

\* C19 witness: SolutionMismatch was answered for a solution whose passed
\* result is in the cache and still fresh.
C19_Witness ==
    /\ pv_ret.op = "process_solution"
    /\ pv_ret.ret = [tag |-> "Err", error |-> "SolutionMismatch"]
    /\ get_cached_result(pv_ret.solution.id) # None
    /\ get_cached_result(pv_ret.solution.id)[1].passed

\* C20: every result in the pending buffer has passed = true; a verification
\* that errors or yields passed = false leaves the buffer unchanged; and
\* every result inside a block returned by produce_block has passed = true.
C20_PendingOnlyPassed ==
    [][/\ \A i \in 1..Len(pending_verifications') : pending_verifications'[i].passed
       /\ (VerifyCall /\ (pv_ret'.ret.tag = "Err" \/ ~pv_ret'.ret.result.passed))
             => UNCHANGED pending_verifications
       /\ (pv_ret'.op = "try_produce_block" /\ pv_ret'.block # None)
             => \A i \in 1..Len(pv_ret'.block[1].verifications) :
                   pv_ret'.block[1].verifications[i].passed]_vars

\* C20 witness: a verification has just come out with passed = false and was
\* left out of a buffer that holds an earlier, passed result.
C20_Witness ==
    /\ pv_ret.op = "process_solution"
    /\ pv_ret.ret.tag = "Ok"
    /\ ~pv_ret.ret.result.passed
    /\ Len(pending_verifications) = 1
    /\ pending_verifications[1].solution_id # pv_ret.solution.id

\* The Mempool call made by this step
MempoolCall(op) == mp_ret'.op = op /\ mp_calls' = mp_calls + 1

\* The jobs held by the mempool that have not expired
LiveJobs == {jobs[id] : id \in {x \in DOMAIN jobs : now <= jobs[x].expires_at}}

\* The time at which the held job id was added: that of its newest heap entry
AddedAt(id) ==
    LET times == {e.added_at : e \in {x \in BagToSet(job_queue) : x.job.id = id}}
    IN CHOOSE t \in times : \A u \in times : u <= t

\* C21: a job returned by pop_job was held and not expired, has left the
\* mempool, and no other held, unexpired job had a higher bounty, or the same
\* bounty and an earlier time of addition.
C21_PopJobHighestBounty ==
    [][(MempoolCall("pop_job") /\ mp_ret'.result # None) =>
          LET j == mp_ret'.result[1]
          IN /\ j \in LiveJobs
             /\ j.id \notin DOMAIN jobs'
             /\ \A k \in LiveJobs :
                   \/ k.bounty < j.bounty
                   \/ k.bounty = j.bounty /\ AddedAt(j.id) <= AddedAt(k.id)]_vars

\* C22: add_job answers DuplicateJob for a job whose id is held, otherwise
\* Full when max_jobs jobs are held, otherwise Expired for an expired job;
\* a rejected call leaves jobs, heap and both solution maps unchanged, and
\* the mempool never holds more than max_jobs jobs.
C22_AddJobRejects ==
    [][MempoolCall("add_job") =>
          LET job == mp_ret'.arg
              r == mp_ret'.result
          IN /\ job.id \in DOMAIN jobs => r = "DuplicateJob"
             /\ (job.id \notin DOMAIN jobs /\ Cardinality(DOMAIN jobs) >= max_jobs)
                   => r = "Full"
             /\ (job.id \notin DOMAIN jobs /\ Cardinality(DOMAIN jobs) < max_jobs
                 /\ now > job.expires_at) => r = "Expired"
             /\ (job.id \in DOMAIN jobs \/ Cardinality(DOMAIN jobs) >= max_jobs
                 \/ now > job.expires_at) => r # "Ok"
             /\ r # "Ok" => UNCHANGED <<jobs, job_queue, solutions, solutions_by_job>>
             /\ Cardinality(DOMAIN jobs') <= max_jobs]_vars

\* C22 witness: add_job has just answered Full for an unexpired job that the
\* mempool, holding max_jobs jobs, did not hold.
C22_Witness ==
    /\ mp_ret.op = "add_job"
    /\ mp_ret.result = "Full"
    /\ now <= mp_ret.arg.expires_at
    /\ Cardinality(DOMAIN jobs) = max_jobs

\* What C23 states of every call of pop_solutions but the last clause
PopSolutionsDrains ==
    LET limit == mp_ret'.arg
        results == mp_ret'.result
        returned == {results[i][2].id : i \in 1..Len(results)}
    IN /\ Len(results) <= limit
       /\ \A i \in 1..Len(results) :
             /\ results[i][2].job_id = results[i][1].id
             /\ results[i][1].id \in DOMAIN jobs
             /\ results[i][1] = jobs[results[i][1].id]
             /\ results[i][2].id \in DOMAIN solutions
             /\ results[i][2].id \notin DOMAIN solutions'
       /\ \A i, k \in 1..Len(results) : results[i][2].id = results[k][2].id => i = k
       /\ \A id \in DOMAIN solutions :
             solutions[id].job_id \notin DOMAIN jobs
                => id \notin returned /\ id \in DOMAIN solutions'
       /\ jobs' = jobs

\* C23 as stated: pop_solutions(n) returns at most n pairs of a held job and
\* one of its solutions, removes every returned solution, skips the
\* solutions of jobs no longer held and leaves the jobs in place; and no
\* solution is returned that an earlier call has returned.
C23_NeverReturnedAgain ==
    [][MempoolCall("pop_solutions") =>
          /\ PopSolutionsDrains
          /\ \A i \in 1..Len(mp_ret'.result) : mp_ret'.result[i][2].id \notin popped]_vars

\* C23 (amended): pop_solutions(n) returns at most n pairs of a held job and
\* one of its stored solutions, each solution once; every returned solution
\* leaves the mempool, the solutions of jobs no longer held are neither
\* returned nor removed, and the jobs stay. A solution returned before is
\* returned again only after add_solution has stored it again, which
\* add_solution accepts.
C23_PopSolutionsDrains ==
    [][/\ MempoolCall("pop_solutions") => PopSolutionsDrains
       /\ \A id \in popped :
             (id \notin DOMAIN solutions /\ id \in DOMAIN solutions')
                => MempoolCall("add_solution") /\ mp_ret'.arg.id = id]_vars

\* C23 witness: pop_solutions(2) has just returned the one solution of a held
\* job while the solution of a job that is no longer held stays behind.
C23_Witness ==
    /\ mp_ret.op = "pop_solutions"
    /\ mp_ret.arg = 2
    /\ Len(mp_ret.result) = 1
    /\ mp_ret.result[1][1].id \in DOMAIN jobs
    /\ \E id \in DOMAIN solutions : solutions[id].job_id \notin DOMAIN jobs

\* The step makes the account call op
AccountCall(op) == acct_ret'.op = op /\ acct_calls' = acct_calls + 1

\* The sum of all account balances
RECURSIVE TotalBalance(_)
TotalBalance(accts) ==
    IF DOMAIN accts = {} THEN 0
    ELSE LET address == CHOOSE x \in DOMAIN accts : TRUE
         IN accts[address].balance + TotalBalance(MapRemove(accts, address))

\* C24: transfer(from, to, amount) succeeds exactly when from's available
\* balance (balance minus staked) is at least amount; on success from's
\* balance falls by amount, to's balance rises by amount and the sum of all
\* balances is unchanged (a transfer to oneself leaves the balance as it
\* was); otherwise the result is InsufficientBalance.
C24_TransferAsStated ==
    [][AccountCall("transfer") =>
         LET from == acct_ret'.from
             to == acct_ret'.to
             amount == acct_ret'.amount
             sender == get_or_create_account(accounts, from)[from]
         IN /\ (acct_ret'.result = "Ok") <=> (available_balance(sender) >= amount)
            /\ acct_ret'.result # "Ok" => acct_ret'.result = "InsufficientBalance"
            /\ acct_ret'.result = "Ok" =>
                  /\ TotalBalance(accounts') = TotalBalance(accounts)
                  /\ IF from = to
                     THEN balance_of(accounts', from) = balance_of(accounts, from)
                     ELSE /\ balance_of(accounts', from) = balance_of(accounts, from) - amount
                          /\ balance_of(accounts', to) = balance_of(accounts, to) + amount]_vars

\* C25: for every bounty in base units, process_job_completion returns
\* shares with solver_amount + verifier_amount + burn_amount equal to the
\* bounty, appends exactly one JobFee burn of burn_amount to the history, and
\* total_burned grows by burn_amount.
C25_FeeConservation ==
    [][(tk_ret'.op = "process_job_completion" /\ tk_calls' = tk_calls + 1) =>
         LET d == tk_ret'.result
         IN /\ d.solver_amount + d.verifier_amount + d.burn_amount = tk_ret'.bounty
            /\ Len(burn_history') = Len(burn_history) + 1
            /\ SubSeq(burn_history', 1, Len(burn_history)) = burn_history
            /\ burn_history'[Len(burn_history')].amount = d.burn_amount
            /\ burn_history'[Len(burn_history')].reason = "JobFee"
            /\ total_burned' = total_burned + d.burn_amount]_vars

\* C26: execute answers Ok(b) only when the script's verify() returned the
\* boolean b, and when verify() returned a value of any other type execute
\* fails with InvalidReturnType, in the Python and in the JavaScript runtime.
C26_StrictlyBoolean ==
    rt_ret.op = "execute" =>
        LET script == rt_ret.script
            returns == script.loads /\ script.defines_verify /\ ~script.throws
        IN /\ rt_ret.result.ok =>
                 /\ returns
                 /\ script.returned = <<"bool", rt_ret.result.value>>
           /\ (returns /\ script.returned[1] # "bool" /\ ~rt_ret.timed_out) =>
                 /\ ~rt_ret.result.ok
                 /\ rt_ret.result.error = "InvalidReturnType"

\* The condition the claim attaches to a decision, on the counts of a
\* consensus; tie_rejects adds that an ApprovedWeak needs unsafe below 1/2
DecisionCondition(decision, c, tie_rejects) ==
    LET total == c.total_reviewers
        safe == c.safe_votes
        unsafe_count == c.unsafe_votes
        approved_strong == total > 0 /\ 3 * safe >= 2 * total
        approved_weak == /\ total > 0 /\ 2 * safe >= total /\ 3 * safe < 2 * total
                         /\ (tie_rejects => 2 * unsafe_count < total)
        rejected_weak == total > 0 /\ 2 * unsafe_count >= total /\ 3 * unsafe_count < 2 * total
        rejected_strong == total > 0 /\ 3 * unsafe_count >= 2 * total
    IN CASE decision = "ApprovedStrong" -> approved_strong
         [] decision = "ApprovedWeak" -> approved_weak
         [] decision = "RejectedWeak" -> rejected_weak
         [] decision = "RejectedStrong" -> rejected_strong
         [] decision = "InsufficientVotes" -> total = 0
         [] OTHER -> /\ total > 0
                     /\ ~(approved_strong \/ approved_weak \/ rejected_weak \/ rejected_strong)

ConsensusDecisions ==
    {"ApprovedStrong", "ApprovedWeak", "RejectedWeak", "RejectedStrong",
     "InsufficientVotes", "NoConsensus"}

C28_CacheWithinTtl ==
    [][(VerifyCall /\ pv_ret'.solution.job_id = pv_ret'.job.id) =>
          LET id == pv_ret'.solution.id
              held == id \in DOMAIN verification_cache
              fresh == held /\ now - verification_cache[id].verified_at < cache_ttl_ms
              ret == pv_ret'.ret
          IN /\ fresh <=> (ret.tag = "Ok" /\ ret.cached)
             /\ fresh => /\ ret.result = verification_cache[id]
                         /\ UNCHANGED verification_cache
             /\ (~fresh /\ ret.tag = "Ok") =>
                   /\ ret.result.verified_at = now
                   /\ verification_cache' = MapInsert(verification_cache, id, ret.result)]_vars

\* C28 witness: a solution verified at time 0 was verified again two ticks
\* (60 s) later, so the pending buffer holds both of its results.
C28_Witness ==
    /\ pv_ret.op = "process_solution"
    /\ Len(pending_verifications) = 2
    /\ pending_verifications[1].solution_id = pending_verifications[2].solution_id
    /\ pending_verifications[1].verified_at = 0
    /\ pending_verifications[2].verified_at = cache_ttl_ms
    /\ verification_cache[pv_ret.solution.id] = pending_verifications[2]

\* The lesser of two numbers
Min(a, b) == IF a < b THEN a ELSE b

\* C29: produce_block moves the first k = min(|pending|,
\* max_solutions_per_block, floor(max_block_size / 256)) results of the
\* pending buffer into the block in order and leaves the rest pending in
\* order; the block has height current_height + 1 and parent current_parent
\* and carries exactly one attestation, by the producer, listing the included
\* solution ids in block order; with an empty buffer it fails and changes
\* nothing.
C29_ProduceBlockFifo ==
    [][(pv_ret'.op = "produce_block" /\ produce_calls' = produce_calls + 1) =>
          IF pending_verifications = <<>>
          THEN /\ pv_ret'.ret.tag = "Err"
               /\ UNCHANGED <<pending_verifications, verification_cache,
                              current_height, current_parent>>
          ELSE LET k == Min(Len(pending_verifications),
                            Min(block_config.max_solutions_per_block,
                                block_config.max_block_size \div 256))
                   block == pv_ret'.ret.block
               IN /\ pv_ret'.ret.tag = "Ok"
                  /\ block.verifications = SubSeq(pending_verifications, 1, k)
                  /\ pending_verifications' =
                        SubSeq(pending_verifications, k + 1, Len(pending_verifications))
                  /\ block.header.height = current_height + 1
                  /\ block.header.parent_hash = current_parent
                  /\ Len(block.attestations) = 1
                  /\ block.attestations[1].verifier = block.header.proposer
                  /\ block.attestations[1].verifier = ProducerKey
                  /\ block.attestations[1].verified_solutions =
                        [i \in 1..k |-> pending_verifications[i].solution_id]
                  /\ UNCHANGED <<current_height, current_parent>>]_vars

\* C29 witness: a producer limited to one verification per block has put the
\* first of two pending results into a block and kept the second.
C29_Witness ==
    /\ pv_ret.op = "produce_block"
    /\ pv_ret.ret.tag = "Ok"
    /\ Len(pv_ret.ret.block.verifications) = 1
    /\ Len(pending_verifications) = 1
    /\ pending_verifications[1].solution_id # pv_ret.ret.block.verifications[1].solution_id

\* C30: for a PythonScript or JavaScriptScript job whose code does not hash
\* to the declared code_hash, verify_solution returns a result with passed =
\* false and the tampering error, and no runtime is run on the code; when the
\* hash matches and the runtime is run, its Ok(b) becomes passed = b and its
\* Err becomes passed = false with the error string, in a returned result.
C30_TamperedScriptFails ==
    (/\ pv_ret.op = "process_solution"
     /\ pv_ret.solution.job_id = pv_ret.job.id
     /\ pv_ret.job.verification.kind \in {"PythonScript", "JavaScriptScript"}) =>
        LET v == pv_ret.job.verification
            python == v.kind = "PythonScript"
            ret == pv_ret.ret
            r == execute(v.code, pv_ret.job.input, pv_ret.solution.output)
        IN /\ ret.tag = "Ok"
           /\ hash_code(v.code) # v.code_hash =>
                 /\ ~ret.result.passed
                 /\ ret.result.error =
                       Some(IF python
                            THEN "Python code hash mismatch - possible tampering"
                            ELSE "JavaScript code hash mismatch - possible tampering")
                 /\ ~ret.executed
           /\ (hash_code(v.code) = v.code_hash /\ ret.executed) =>
                 IF r.ok
                 THEN ret.result.passed = r.value /\ ret.result.error = None
                 ELSE /\ ~ret.result.passed
                      /\ ret.result.error =
                            Some(<<IF python THEN "Python execution failed: "
                                   ELSE "JavaScript execution failed: ", r.error>>)

\* C40: a transfer that fails with InsufficientBalance leaves the accounts
\* of the ChainState as they were: the same set of accounts with the same
\* balances, hence the same state root.
C40_FailedTransferChangesNothing ==
    [][(AccountCall("transfer") /\ acct_ret'.result = "InsufficientBalance") =>
          /\ DOMAIN accounts' = DOMAIN accounts
          /\ accounts' = accounts]_vars

\* C39: after any sequence of add_job, add_solution, pop_job, pop_solutions,
\* remove_job and cleanup_expired, every solution held in the mempool
\* references a job that is held in the mempool.
C39_NoOrphanSolutions ==
    \A id \in DOMAIN solutions : solutions[id].job_id \in DOMAIN jobs

\* C37: after any sequence of stake, slash, distribute_reward, begin_unstake
\* and complete_unstake, every verifier counted by active_verifier_count
\* satisfies can_verify, so the count equals the number of addresses that
\* are allowed to verify.
C37_CountedCanVerify ==
    /\ \A address \in DOMAIN stakes :
          stakes[address].is_active => can_verify(stakes, address)
    /\ active_verifier_count(stakes) =
          Cardinality({address \in DOMAIN stakes : can_verify(stakes, address)})

\* C38: finalize_round on a round that is not yet in phase Complete fails
\* with RoundNotComplete and leaves the round in the active set with its
\* commitments and reveals as they were.
C38_EarlyFinalizeKeepsRound ==
    [][(/\ SchellingCall("finalize_round")
        /\ sc_ret'.solution_id \in DOMAIN active_rounds
        /\ active_rounds[sc_ret'.solution_id].phase # "Complete") =>
          /\ sc_ret'.result = "RoundNotComplete"
          /\ sc_ret'.solution_id \in DOMAIN active_rounds'
          /\ active_rounds' = active_rounds]_vars

\* The honey-pot calls of hp_log made one after the other on a fresh detector
\* and a fresh generator: the two sets of the detector, the set of the
\* generator, and whether every call returned what it returned in hp_log
RECURSIVE ReplayLog(_)
ReplayLog(log) ==
    IF log = <<>>
    THEN [pots |-> {}, offs |-> {}, ids |-> {}, ok |-> TRUE]
    ELSE LET st == ReplayLog(SubSeq(log, 1, Len(log) - 1))
             e == log[Len(log)]
             returns(v) == st.ok /\ e.ret = v
         IN CASE e.op = "register" ->
                   [st EXCEPT !.pots = @ \cup {e.arg}, !.ok = returns("unit")]
              [] e.op = "is_honey_pot" ->
                   [st EXCEPT !.ok = returns(e.arg \in st.pots)]
              [] e.op = "record_offender" ->
                   [st EXCEPT !.offs = record_offender(st.pots, @, e.arg[1], e.arg[2]),
                              !.ok = returns("unit")]
              [] e.op = "is_offender" ->
                   [st EXCEPT !.ok = returns(e.arg \in st.offs)]
              [] e.op = "get_offenders" ->
                   [st EXCEPT !.ok = returns(st.offs)]
              [] e.op = "clear_offender" ->
                   [st EXCEPT !.offs = @ \ {e.arg}, !.ok = returns("unit")]
              [] e.op = "generate" ->
                   [st EXCEPT !.ids = @ \cup {e.ret}]
              [] e.op = "generator_is_honey_pot" ->
                   [st EXCEPT !.ok = returns(e.arg \in st.ids)]
              [] e.op = "cleanup" ->
                   [st EXCEPT !.ids = @ \cap e.arg, !.ok = returns("unit")]

\* C31: when the calls of one HoneyPotDetector and one HoneyPotGenerator run
\* on different threads, the calls made one after the other in the order
\* of hp_log (each call stands between its beginning and its return) give
\* the same sets and the same return values; an id registered stays in
\* known_honey_pots; a miner recorded with a registered id and not cleared
\* since is in offenders; and a miner is in offenders only if record_offender
\* was called for it with an id registered before.
C31_Linearizable ==
    LET st == ReplayLog(hp_log)
        n == Len(hp_log)
        recorded(i, miner) ==
            /\ hp_log[i].op = "record_offender"
            /\ hp_log[i].arg[1] = miner
            /\ \E j \in 1..(i - 1) :
                  hp_log[j].op = "register" /\ hp_log[j].arg = hp_log[i].arg[2]
    IN /\ st.ok
       /\ st.pots = known_honey_pots
       /\ st.offs = offenders
       /\ st.ids = generated_ids
       /\ \A i \in 1..n : hp_log[i].began < i
       /\ \A i \in 1..n : hp_log[i].op = "register" => hp_log[i].arg \in known_honey_pots
       /\ \A miner \in Miners :
             miner \in offenders <=>
                \E i \in 1..n :
                   /\ recorded(i, miner)
                   /\ \A k \in (i + 1)..n :
                         ~(hp_log[k].op = "clear_offender" /\ hp_log[k].arg = miner)

\* Reached: a record_offender found its id registered, another thread
\* cleared the same miner before the insert, and the insert then took effect
C31_Witness ==
    /\ Len(hp_log) = 3
    /\ hp_log[1].op = "register"
    /\ hp_log[2].op = "clear_offender"
    /\ hp_log[3].op = "record_offender"
    /\ hp_log[3].began = 1
    /\ hp_log[3].thread # hp_log[2].thread
    /\ hp_log[3].arg[1] = hp_log[2].arg
    /\ hp_log[3].arg[1] \in offenders

\* The step is a call of the SafetyReviewManager handler op
ReviewCall(op) == rv_ret'.op = op /\ rv_calls' = rv_calls + 1

\* C32: a reviewer's penalty_multiplier is lowered, or its outlier_count
\* raised, only by the finalization of a review in which the reviewer voted
\* against the consensus decision and the dissenting votes were fewer than
\* 1/6 of all votes; a reviewer who voted with the majority, a unanimous
\* review included, is not penalised.
C32_OnlyOutliersPenalised ==
    [][\A reviewer \in PublicKeys :
          LET old == IF reviewer \in DOMAIN reputations THEN reputations[reviewer]
                     ELSE ReviewerReputation_new
              new == IF reviewer \in DOMAIN reputations' THEN reputations'[reviewer]
                     ELSE ReviewerReputation_new
              session == sessions'[rv_ret'.code_hash]
              consensus == from_votes([i \in 1..Len(session.votes) |-> session.votes[i].verdict])
              fraction == outlier_fraction(consensus)
              against(vote) ==
                  \/ (consensus.decision \in {"ApprovedStrong", "ApprovedWeak"}
                        /\ vote.verdict # "Safe")
                  \/ (consensus.decision \in {"RejectedStrong", "RejectedWeak"}
                        /\ vote.verdict # "Unsafe")
          IN (new.penalty_multiplier < old.penalty_multiplier
                \/ new.outlier_count > old.outlier_count) =>
                /\ ReviewCall("reveal_vote")
                /\ session.phase = "Complete"
                /\ \E i \in 1..Len(session.votes) :
                      session.votes[i].reviewer = reviewer /\ against(session.votes[i])
                /\ 6 * fraction[1] < fraction[2]]_vars

C36_OneResultPerSolution ==
    LET once(results) ==
            \A i, j \in 1..Len(results) :
               results[i].solution_id = results[j].solution_id => i = j
    IN /\ once(pending_verifications)
       /\ (pv_ret.op = "produce_block" /\ pv_ret.ret.tag = "Ok") =>
             once(pv_ret.ret.block.verifications)

\* C34: every block the node stores in its ChainState, received from the
\* network or produced by itself, passes validate_block against the tip it
\* is stored on (for some number of active verifiers); a block that fails
\* validate_block is not applied. The genesis block of init is left aside.
C34_StoredBlocksValidated ==
    [][(tip # None /\ height' = height + 1) =>
          \E active_verifiers \in 0..Cardinality(PublicKeys) :
             validate_block(cs_ret'.block, tip_block, active_verifiers) = "Ok"]_vars

\* C35: every block the producer returns in the verifier tick is accepted by
\* apply_block, and once the node is initialised the producer's
\* current_parent is the hash of the chain tip and its current_height the
\* height of the tip.
C35_ProducerFollowsTip ==
    [][/\ (pv_ret'.op = "process_verifier_tick" /\ pv_ret' # pv_ret
             /\ pv_ret'.block # None) => pv_ret'.result = "Ok"
       /\ cs_ret'.op # "new" =>
             /\ tip' = Some(current_parent')
             /\ current_height' \in {height', blocks'[tip'[1]].header.height}]_vars
====
